---- MODULE Spec2Model ----
(***************************************************************************)
(* Model of the path-confined file-access-and-editing subsystem of        *)
(* filesystem-daemon: service/filesystem_types.go (validatePath) and       *)
(* service/filesystem_editor.go (FileEditor, OpenFile, CloseFile,          *)
(* LockFile, UnlockFile).                                                  *)
(*                                                                         *)
(* Strings are sequences of one-character strings, so that                 *)
(* strings.HasPrefix, filepath.Join, filepath.Clean and filepath.Dir are   *)
(* computed character by character as the Go library computes them.        *)
(***************************************************************************)
EXTENDS Integers, Sequences, FiniteSets, TLC

\* ------------------------------------------------------------------------
\* Strings and paths (path/filepath on a Unix build: Separator is '/')
\* ------------------------------------------------------------------------

Sep == "/"
Dot == <<".">>
DotDot == <<".", ".">>

\* strings.Split(s, "/"): the components between separators, empty ones kept.
RECURSIVE Split(_)
Split(s) ==
    IF s = <<>> THEN << <<>> >>
    ELSE LET rest == Split(Tail(s))
         IN  IF Head(s) = Sep
             THEN << <<>> >> \o rest
             ELSE << <<Head(s)>> \o Head(rest) >> \o Tail(rest)

\* strings.Join(comps, "/")
RECURSIVE JoinSep(_)
JoinSep(comps) ==
    IF comps = <<>> THEN <<>>
    ELSE IF Len(comps) = 1 THEN Head(comps)
    ELSE Head(comps) \o <<Sep>> \o JoinSep(Tail(comps))

IsRooted(s) == s # <<>> /\ Head(s) = Sep

\* The component stack of filepath.Clean: "" and "." are dropped, ".." pops
\* the last kept component; at the top a rooted path drops the "..", a
\* relative one keeps it.
RECURSIVE CleanComps(_, _, _)
CleanComps(comps, out, rooted) ==
    IF comps = <<>> THEN out
    ELSE LET c == Head(comps)
             rest == Tail(comps)
         IN  IF c = <<>> \/ c = Dot THEN CleanComps(rest, out, rooted)
             ELSE IF c = DotDot
             THEN IF out # <<>> /\ out[Len(out)] # DotDot
                  THEN CleanComps(rest, SubSeq(out, 1, Len(out) - 1), rooted)
                  ELSE IF rooted THEN CleanComps(rest, out, rooted)
                  ELSE CleanComps(rest, Append(out, c), rooted)
             ELSE CleanComps(rest, Append(out, c), rooted)

\* filepath.Clean
Clean(s) ==
    IF s = <<>> THEN Dot
    ELSE LET out == CleanComps(Split(s), <<>>, IsRooted(s))
         IN  IF IsRooted(s) THEN <<Sep>> \o JoinSep(out)
             ELSE IF out = <<>> THEN Dot ELSE JoinSep(out)

\* filepath.Join(a, b): empty elements are ignored, the rest joined with the
\* separator and cleaned.
Join(a, b) ==
    IF a = <<>> /\ b = <<>> THEN <<>>
    ELSE IF a = <<>> THEN Clean(b)
    ELSE IF b = <<>> THEN Clean(a)
    ELSE Clean(a \o <<Sep>> \o b)

\* Index of the last separator of s, 0 when there is none.
RECURSIVE LastSep(_)
LastSep(s) ==
    IF s = <<>> THEN 0
    ELSE IF s[Len(s)] = Sep THEN Len(s)
    ELSE LastSep(SubSeq(s, 1, Len(s) - 1))

\* filepath.Dir: everything up to and including the last separator, cleaned.
Dir(s) == Clean(SubSeq(s, 1, LastSep(s)))

\* filepath.FromSlash: replaces '/' by the OS separator, which is '/'.
FromSlash(s) == [i \in 1..Len(s) |-> IF s[i] = "/" THEN Sep ELSE s[i]]

\* strings.HasPrefix
HasPrefix(s, prefix) ==
    /\ Len(s) >= Len(prefix)
    /\ SubSeq(s, 1, Len(prefix)) = prefix

\* The components of a cleaned absolute path ("/" has none).
Comps(s) == CleanComps(Split(s), <<>>, TRUE)

\* The absolute path string of a component sequence.
AbsStr(comps) == <<Sep>> \o JoinSep(comps)

\* ------------------------------------------------------------------------
\* The file system the daemon runs on
\* ------------------------------------------------------------------------

\* File names are strings too.
nD == <<"d">>
nDo == <<"d", "o">>
nE == <<"e">>
nA == <<"a">>
nL == <<"l">>
nX == <<"x">>

\* FilesystemService.BaseDir: the authorized root, absolute and canonical.
BaseDir == <<Sep>> \o nD

\* A file system maps the component sequence of every existing absolute path
\* to its node; the root directory <<>> always exists.
DirNode == [kind |-> "dir", target |-> <<>>]
FileNode == [kind |-> "file", target |-> <<>>]
LinkNode(t) == [kind |-> "link", target |-> t]

\* The errors of os.Lstat that the walk can meet.
ENOENT == "ENOENT"
ENOTDIR == "ENOTDIR"

\* path/filepath.walkSymlinks: dest holds the components resolved so far
\* (none of them a symlink), rest the components still to walk.
RECURSIVE walkSymlinks(_, _, _)
walkSymlinks(fsys, dest, rest) ==
    IF rest = <<>> THEN [err |-> "nil", path |-> Clean(AbsStr(dest))]
    ELSE LET c == Head(rest)
             more == Tail(rest)
         IN  IF c = <<>> \/ c = Dot THEN walkSymlinks(fsys, dest, more)
             ELSE IF c = DotDot
             THEN walkSymlinks(fsys,
                               IF dest = <<>> THEN <<>>
                               ELSE SubSeq(dest, 1, Len(dest) - 1),
                               more)
             ELSE LET d == Append(dest, c)
                  IN  IF d \notin DOMAIN fsys
                      THEN [err |-> ENOENT, path |-> <<>>]
                      ELSE IF fsys[d].kind # "link"
                      THEN IF fsys[d].kind # "dir" /\ more # <<>>
                           THEN [err |-> ENOTDIR, path |-> <<>>]
                           ELSE walkSymlinks(fsys, d, more)
                      ELSE IF IsRooted(fsys[d].target)
                      THEN walkSymlinks(fsys, <<>>, Split(fsys[d].target) \o more)
                      ELSE walkSymlinks(fsys, dest, Split(fsys[d].target) \o more)

\* filepath.EvalSymlinks
EvalSymlinks(fsys, s) == walkSymlinks(fsys, <<>>, Split(s))

\* os.IsNotExist
IsNotExist(err) == err = ENOENT

\* gRPC status codes returned by validatePath
OK == "OK"
PermissionDenied == "PermissionDenied"
InvalidArgument == "InvalidArgument"

\* FilesystemService.validatePath
validatePath(fsys, path) ==
    LET fullPath == Join(BaseDir, FromSlash(path))
        real == EvalSymlinks(fsys, fullPath)
    IN  IF real.err # "nil"
        THEN IF IsNotExist(real.err)
             THEN LET parentDir == Dir(fullPath)
                      realParent == EvalSymlinks(fsys, parentDir)
                  IN  IF realParent.err # "nil"
                      THEN [code |-> InvalidArgument, path |-> <<>>]
                      ELSE IF ~HasPrefix(realParent.path, BaseDir)
                      THEN [code |-> PermissionDenied, path |-> <<>>]
                      ELSE [code |-> OK, path |-> fullPath]
             ELSE [code |-> InvalidArgument, path |-> <<>>]
        ELSE IF ~HasPrefix(real.path, BaseDir)
        THEN [code |-> PermissionDenied, path |-> <<>>]
        ELSE [code |-> OK, path |-> fullPath]

\* os.Stat: follows symlinks; the node the path resolves to, if any.
Stat(fsys, s) ==
    LET real == EvalSymlinks(fsys, s)
    IN  IF real.err # "nil" THEN [err |-> real.err, kind |-> "none"]
        ELSE [err |-> "nil", kind |-> fsys[Comps(real.path)].kind]

\* os.MkdirAll: creates the directory and every missing parent; fails when a
\* component exists and is not a directory.
RECURSIVE MkdirAll(_, _)
MkdirAll(fsys, s) ==
    LET st == Stat(fsys, s)
    IN  IF st.err = "nil"
        THEN IF st.kind = "dir" THEN [err |-> "nil", fs |-> fsys]
             ELSE [err |-> ENOTDIR, fs |-> fsys]
        ELSE IF Comps(s) = <<>> THEN [err |-> st.err, fs |-> fsys]
        ELSE LET up == MkdirAll(fsys, Dir(s))
                 realParent == EvalSymlinks(up.fs, Dir(s))
                 name == Comps(s)[Len(Comps(s))]
                 made == Append(Comps(realParent.path), name)
             IN  IF up.err # "nil" THEN up
                 ELSE IF realParent.err # "nil" \/ made \in DOMAIN up.fs
                 THEN [err |-> ENOTDIR, fs |-> up.fs]
                 ELSE [err |-> "nil", fs |-> (made :> DirNode) @@ up.fs]

\* os.OpenFile(name, flags, 0644) as far as the tree is concerned: the open
\* follows symlinks, O_CREATE creates a missing last component in an existing
\* directory, and a directory cannot be opened for writing.
RECURSIVE OpenFS(_, _, _, _)
OpenFS(fsys, s, create, writable) ==
    LET st == Stat(fsys, s)
        comps == Comps(s)
        realParent == EvalSymlinks(fsys, Dir(s))
        target == Append(Comps(realParent.path), comps[Len(comps)])
    IN  IF st.err = "nil"
        THEN IF st.kind = "dir" /\ writable
             THEN [err |-> "EISDIR", fs |-> fsys]
             ELSE [err |-> "nil", fs |-> fsys]
        ELSE IF ~(IsNotExist(st.err) /\ create) \/ comps = <<>>
                 \/ realParent.err # "nil"
        THEN [err |-> st.err, fs |-> fsys]
        ELSE IF target \in DOMAIN fsys
        THEN \* a dangling symlink: the file is created where it points
             OpenFS(fsys,
                    IF IsRooted(fsys[target].target) THEN fsys[target].target
                    ELSE Join(realParent.path, fsys[target].target),
                    create, writable)
        ELSE [err |-> "nil", fs |-> (target :> FileNode) @@ fsys]

\* The bytes of the regular file at the component sequence key.
Content(dat, key) == IF key \in DOMAIN dat THEN dat[key] ELSE <<>>

\* os.ReadFile: follows symlinks; a directory cannot be read.
ReadFile(fsys, dat, s) ==
    LET Read(st) ==
            IF st.err # "nil" THEN [err |-> st.err, content |-> <<>>]
            ELSE IF st.kind = "dir" THEN [err |-> "EISDIR", content |-> <<>>]
            ELSE [err |-> "nil",
                  content |-> Content(dat, Comps(EvalSymlinks(fsys, s).path))]
    IN  Read(Stat(fsys, s))

\* File.WriteString on a file just opened without O_TRUNC: the bytes are
\* written from offset 0 and what the file held beyond them stays.
Overwrite(old, new) == new \o SubSeq(old, Len(new) + 1, Len(old))

\* os.OpenFile(name, O_WRONLY|O_CREATE [|O_TRUNC], 0644) and WriteString
\* (with O_TRUNC also: os.WriteFile, os.Create).
WriteFS(fsys, dat, s, content, trunc) ==
    LET Put(op, key) ==
            [err |-> "nil", fs |-> op.fs,
             data |-> (key :> (IF trunc THEN content
                               ELSE Overwrite(Content(dat, key), content))) @@ dat]
        Written(op) ==
            IF op.err # "nil" THEN [err |-> op.err, fs |-> op.fs, data |-> dat]
            ELSE Put(op, Comps(EvalSymlinks(op.fs, s).path))
    IN  Written(OpenFS(fsys, s, TRUE, TRUE))

\* A copy that creates dst and copies nothing.
copyFileEmpty(fsys, dat, src, dst) == WriteFS(fsys, dat, dst, <<>>, TRUE)

\* FilesystemService.copyFileForBackup: os.Open(src), os.Create(dst),
\* io.Copy. A directory opens but cannot be read: the copy fails after dst
\* was created.
copyFileForBackup(fsys, dat, src, dst) ==
    LET Copy(cr, rd, key) ==
            IF rd.err # "nil" THEN [err |-> rd.err, fs |-> cr.fs, data |-> cr.data]
            ELSE [err |-> "nil", fs |-> cr.fs,
                  data |-> (key :> rd.content) @@ cr.data]
        Create(st, cr) ==
            IF st.err # "nil" THEN [err |-> st.err, fs |-> fsys, data |-> dat]
            ELSE IF cr.err # "nil" THEN [err |-> cr.err, fs |-> cr.fs, data |-> dat]
            ELSE Copy(cr, ReadFile(cr.fs, cr.data, src),
                      Comps(EvalSymlinks(cr.fs, dst).path))
    IN  Create(Stat(fsys, src), WriteFS(fsys, dat, dst, <<>>, TRUE))

\* strconv.FormatInt(n, 10) for n >= 0
RECURSIVE FormatInt(_)
FormatInt(n) ==
    LET digit == <<"0", "1", "2", "3", "4", "5", "6", "7", "8", "9">>[(n % 10) + 1]
    IN  IF n < 10 THEN <<digit>> ELSE Append(FormatInt(n \div 10), digit)

\* validPath + ".backup." + strconv.FormatInt(time.Now().Unix(), 10)
BackupSuffix == <<".", "b", "a", "c", "k", "u", "p", ".">>
BackupPath(validPath, t) == validPath \o BackupSuffix \o FormatInt(t)

\* ------------------------------------------------------------------------
\* Lines
\* ------------------------------------------------------------------------

NL == "\n"

\* strings.Split(content, "\n")
RECURSIVE SplitLines(_)
SplitLines(s) ==
    IF s = <<>> THEN << <<>> >>
    ELSE CHOOSE lines \in
            {IF Head(s) = NL
             THEN << <<>> >> \o rest
             ELSE << <<Head(s)>> \o Head(rest) >> \o Tail(rest) :
                rest \in {SplitLines(Tail(s))}} : TRUE

\* strings.Join(lines, "\n")
RECURSIVE JoinLines(_)
JoinLines(lines) ==
    IF lines = <<>> THEN <<>>
    ELSE IF Len(lines) = 1 THEN Head(lines)
    ELSE Head(lines) \o <<NL>> \o JoinLines(Tail(lines))

\* strings.Count(content, "\n")
RECURSIVE CountNL(_)
CountNL(s) ==
    IF s = <<>> THEN 0
    ELSE (IF Head(s) = NL THEN 1 ELSE 0) + CountNL(Tail(s))

\* pb.LineOperation
OpReplace == "REPLACE"
OpInsertBefore == "INSERT_BEFORE"
OpInsertAfter == "INSERT_AFTER"
OpDelete == "DELETE"
LineOperations == {OpReplace, OpInsertBefore, OpInsertAfter, OpDelete}

\* One pass of the update loop of UpdateFileLines on the slice lines
\* (lineIdx is 0-based; lines[a:b] is SubSeq(lines, a + 1, b)).
ApplyUpdate(lines, update) ==
    LET lineIdx == update.LineNumber - 1
        n == Len(lines)
    IN  IF update.Operation = OpReplace
        THEN IF lineIdx >= 0 /\ lineIdx < n
             THEN [lines EXCEPT ![lineIdx + 1] = update.NewContent]
             ELSE lines
        ELSE IF update.Operation = OpInsertBefore
        THEN IF lineIdx >= 0 /\ lineIdx <= n
             THEN SubSeq(lines, 1, lineIdx) \o <<update.NewContent>>
                  \o SubSeq(lines, lineIdx + 1, n)
             ELSE lines
        ELSE IF update.Operation = OpInsertAfter
        THEN IF lineIdx >= 0 /\ lineIdx < n
             THEN SubSeq(lines, 1, lineIdx + 1) \o <<update.NewContent>>
                  \o SubSeq(lines, lineIdx + 2, n)
             ELSE lines
        ELSE IF update.Operation = OpDelete
        THEN IF lineIdx >= 0 /\ lineIdx < n
             THEN SubSeq(lines, 1, lineIdx) \o SubSeq(lines, lineIdx + 2, n)
             ELSE lines
        ELSE lines

\* The updates applied last to first.
RECURSIVE ApplyUpdatesReversed(_, _)
ApplyUpdatesReversed(lines, updates) ==
    IF updates = <<>> THEN lines
    ELSE ApplyUpdate(ApplyUpdatesReversed(lines, Tail(updates)), Head(updates))

\* The loop left at the first update that changes nothing.
RECURSIVE ApplyUpdatesUntilSkip(_, _)
ApplyUpdatesUntilSkip(lines, updates) ==
    IF updates = <<>> \/ ApplyUpdate(lines, Head(updates)) = lines THEN lines
    ELSE ApplyUpdatesUntilSkip(ApplyUpdate(lines, Head(updates)), Tail(updates))

\* for _, update := range req.Updates
RECURSIVE ApplyUpdates(_, _)
ApplyUpdates(lines, updates) ==
    IF updates = <<>> THEN lines
    ELSE ApplyUpdates(ApplyUpdate(lines, Head(updates)), Tail(updates))

\* ------------------------------------------------------------------------
\* Requests, locks and sessions
\* ------------------------------------------------------------------------

\* pb.LockType
Exclusive == "EXCLUSIVE"
Shared == "SHARED"
LockTypes == {Exclusive, Shared}

\* pb.FileOpenMode
ReadOnly == "READ_ONLY"
WriteOnly == "WRITE_ONLY"
ReadWrite == "READ_WRITE"
Modes == {ReadOnly, WriteOnly, ReadWrite}

\* The error texts the handlers report.
AlreadyLocked == "File is already locked"
NotFound == "No lock found for this file"
InvalidLock == "Invalid lock ID"
InvalidHandle == "Invalid file handle"
FileDoesNotExist == "File does not exist"
MkdirFailed == "Failed to create directory"
OpenFailed == "Failed to open file"
FileInfoFailed == "Failed to get file info"
ReadOnlyMode == "File opened in read-only mode"
BackupFailed == "Failed to create backup"
WriteOpenFailed == "Failed to open file for writing"
ReadFailed == "Failed to read file"
ScanFailed == "Error reading file"
WriteBackFailed == "Failed to write updated content"

\* The lock timeout LockFile uses when the request gives 0 (5 minutes), and
\* the timeout OpenFile requests for its exclusive lock, in seconds.
DefaultTimeout == 300
OpenLockTimeout == 300

\* The callers: each runs one request at a time, concurrently with the other.
Procs == {1, 2}

\* Bounds of the model: lock ids and handles ever generated, clock ticks,
\* content mutations.
MaxLocks == 3
MaxHandles == 1
MaxTicks == 2
MaxEdits == 2

\* Inputs of the requests.
RawPaths == {nA, nL, DotDot \o <<Sep>> \o nE}
Timeouts == {0, 1}

VARIABLES
    fs,        \* the file system
    now,       \* time.Now(), in seconds
    nticks,    \* how often the clock has advanced
    locks,     \* fileEditor.locks: path -> FileLock
    sessions,  \* fileEditor.sessions: handle -> FileSession
    mu,        \* fileEditor.mu: 0 when free, else the caller holding it
    pc,        \* where each caller is in its request
    call,      \* the request each caller is running, and its locals
    issued,    \* how many lock ids generateLockID has returned
    held,      \* the locks their holders rely on: granted, not unlocked by
               \* the holder, ExpiresAt not reached; by lock id
    handles,   \* how many handles generateHandle has returned
    nfds,      \* open file descriptors held by the daemon
    data,      \* the bytes of the regular files, by component sequence
               \* (a file without an entry is empty)
    nedits,    \* how many content mutations have been performed
    ev         \* the response the last step returned, if it returned one

vars == <<fs, now, nticks, locks, sessions, mu, pc, call, issued, held, handles,
          nfds, data, nedits, ev>>

NoCall == [op |-> "none", top |-> "none", raw |-> <<>>, path |-> <<>>,
           ltype |-> "none", timeout |-> 0, lockId |-> 0, handle |-> 0,
           mode |-> "none", create |-> FALSE, excl |-> FALSE, start |-> 0,
           swept |-> {}, buf |-> <<>>, applied |-> 0]

NoEvent == [op |-> "none"]

\* The record of a returned call: c is the request, code the gRPC status,
\* success/error the response fields, lockId/handle what it returned; with it
\* the clock, the files and the two tables as the returning step found them,
\* and the paths whose entries the call's sweep removed.
Event(p, c, code, success, error, lockId, handle) ==
    [op |-> c.top, raw |-> c.raw, path |-> c.path,
     ltype |-> c.ltype, timeout |-> c.timeout, reqLock |-> c.lockId,
     reqHandle |-> c.handle, mode |-> c.mode, create |-> c.create,
     code |-> code, success |-> success,
     error |-> error, lockId |-> lockId, handle |-> handle, time |-> now,
     preFs |-> fs, preLocks |-> locks, preSessions |-> sessions,
     swept |-> c.swept]

Remove(f, k) == [q \in DOMAIN f \ {k} |-> f[q]]

\* The layouts the daemon starts on: root /d holding the file a and the
\* symlink l -> /d/a, the outside directory /e, the sibling /do with the file
\* x, and, when nested, the directory /d/d holding a file a.
StartFS(nested) ==
    LET base == (<<>> :> DirNode) @@ (<<nD>> :> DirNode)
                @@ (<<nD, nA>> :> FileNode)
                @@ (<<nD, nL>> :> LinkNode(BaseDir \o <<Sep>> \o nA))
                @@ (<<nE>> :> DirNode)
                @@ (<<nDo>> :> DirNode) @@ (<<nDo, nX>> :> FileNode)
    IN  IF nested
        THEN (<<nD, nD>> :> DirNode) @@ (<<nD, nD, nA>> :> FileNode) @@ base
        ELSE base

\* var fileEditor: both tables empty, the mutex free.
InitTables ==
    /\ now = 0
    /\ nticks = 0
    /\ locks = <<>>
    /\ sessions = <<>>
    /\ mu = 0
    /\ pc = [p \in Procs |-> "idle"]
    /\ call = [p \in Procs |-> NoCall]
    /\ issued = 0
    /\ held = <<>>
    /\ handles = 0
    /\ nfds = 0
    /\ nedits = 0
    /\ ev = NoEvent

Init ==
    /\ fs \in {StartFS(nested) : nested \in BOOLEAN}
    /\ data = <<>>
    /\ InitTables

\* No response is waiting to be seen.
Ready == ev = NoEvent

\* The granted locks whose ExpiresAt is still ahead at time t.
Unexpired(h, t) == [i \in {k \in DOMAIN h : t < h[k].ExpiresAt} |-> h[i]]

\* time passes
Tick(d) ==
    /\ Ready
    /\ nticks < MaxTicks
    /\ now' = now + d
    /\ nticks' = nticks + 1
    /\ held' = Unexpired(held, now + d)
    /\ ev' = NoEvent
    /\ UNCHANGED <<fs, locks, sessions, mu, pc, call, issued, handles, nfds, data, nedits>>

\* A caller returns the response e.
Return(p, e) ==
    /\ pc' = [pc EXCEPT ![p] = "idle"]
    /\ call' = [call EXCEPT ![p] = NoCall]
    /\ ev' = e

\* A caller goes on to the step at, with the request c.
Goto(p, at, c) ==
    /\ pc' = [pc EXCEPT ![p] = at]
    /\ call' = [call EXCEPT ![p] = c]
    /\ ev' = NoEvent

\* Lock requests in flight (each will call generateLockID at most once).
LockCallsInFlight ==
    Cardinality({p \in Procs : pc[p] \in {"open_lock", "lock_check"}})

\* now.After(lock.ExpiresAt), the test of cleanupExpiredLocks
ExpiredAt(lock, t) == t > lock.ExpiresAt

\* Before confused with After: a lock blocks only once it has expired.
StillValidAfter(lock, t) == t > lock.ExpiresAt

\* The expiry test left to the sweep: an entry found in the table blocks.
StillValidAlways(lock, t) == TRUE

\* time.Now().Before(existingLock.ExpiresAt), the test of LockFile
StillValidAt(lock, t) == t < lock.ExpiresAt

\* && written for ||: only Exclusive against Exclusive conflicts.
ConflictsBothExclusive(existing, reqType) ==
    reqType = Exclusive /\ existing.Type = Exclusive

\* The lock types not looked at: every valid lock conflicts.
ConflictsAlways(existing, reqType) == TRUE

\* The existing lock's type not looked at: only an Exclusive request conflicts.
ConflictsExclusiveRequest(existing, reqType) == reqType = Exclusive

\* The conflict rule of LockFile for a valid existing lock.
Conflicts(existing, reqType) ==
    reqType = Exclusive \/ existing.Type = Exclusive

\* The requested timeout not read: every lock lasts 5 minutes.
LockTimeoutDefault(secs) == DefaultTimeout

\* time.Duration(req.TimeoutSeconds) * time.Second, 5 minutes when 0
LockTimeout(secs) == IF secs = 0 THEN DefaultTimeout ELSE secs

\* A sweep that removes nothing.
SweepNothing(table, t) == table

\* cleanupExpiredLocks: the lock table without its expired entries.
SweepExpired(table, t) ==
    [q \in {k \in DOMAIN table : ~ExpiredAt(table[k], t)} |-> table[q]]

\* generateLockID: a token no earlier call returned (64 random bits).
generateLockID == issued + 1

\* generateHandle: a token no earlier call returned (128 random bits).
generateHandle == handles + 1

\* ------------------------------------------------------------------------
\* LockFile
\* ------------------------------------------------------------------------

\* The descriptor left open when the lock request fails.
CloseOnFailureLeak(n, top) == n

\* The open descriptors after a failed lock request: OpenFile, when it made
\* the request, closes the file it had opened (file.Close()).
CloseOnFailure(n, top) == IF top = "OpenFile" THEN n - 1 ELSE n

\* LockFile up to its critical section, for the request c: the path is
\* validated, and a rejected path returns the gRPC error at once; then
\* FileEditor.cleanupExpiredLocks, under the editor's mutex, deletes every
\* entry, on any path, whose ExpiresAt has passed. (Validation reads the file
\* system only and the sweep the lock table only, so the two are one step.)
LockFileEnter(p, c) ==
    \E v \in {validatePath(fs, c.raw)} :
        IF v.code # OK
        THEN /\ Return(p, Event(p, c, v.code, FALSE, "", 0, 0))
             /\ nfds' = CloseOnFailure(nfds, c.top)
             /\ locks' = locks
        ELSE /\ mu = 0
             /\ locks' = SweepExpired(locks, now)
             /\ Goto(p, "lock_check",
                     [c EXCEPT !.path = v.path,
                               !.swept = DOMAIN locks \ DOMAIN locks'])
             /\ nfds' = nfds

\* A LockFile request arrives. (Its lock type and timeout are drawn where the
\* code first reads them, in LockFileLocked.)
LockFile(p, raw) ==
    /\ Ready
    /\ pc[p] = "idle"
    /\ issued + LockCallsInFlight < MaxLocks
    /\ LockFileEnter(p, [NoCall EXCEPT !.op = "LockFile", !.top = "LockFile",
                                       !.raw = raw])
    /\ UNCHANGED <<fs, now, nticks, sessions, mu, issued, held, handles, data, nedits>>

\* An entry whose expiry is the requested timeout itself, 0 included.
NewLockNoDefault(c, t) ==
    [LockID |-> generateLockID, Path |-> c.path, Type |-> c.ltype,
     ExpiresAt |-> t + c.timeout]

\* The entry LockFile stores on success.
NewLock(c, t) ==
    [LockID |-> generateLockID, Path |-> c.path, Type |-> c.ltype,
     ExpiresAt |-> t + LockTimeout(c.timeout)]

\* Whether the table refuses the request c at time t.
Refused(table, c, t) ==
    /\ c.path \in DOMAIN table
    /\ StillValidAt(table[c.path], t)
    /\ Conflicts(table[c.path], c.ltype)

\* The lock table after LockFile's critical section.
LockTable(table, c, t) ==
    IF Refused(table, c, t) THEN table
    ELSE (c.path :> NewLock(c, t)) @@ table

\* LockFile's critical section for the request c: the check of the existing
\* entry and the store of the new one, under the editor's mutex. Called from
\* OpenFile, a refusal closes the opened descriptor and fails the open; a
\* grant goes on to store the session.
LockFileCritical(p, c) ==
    /\ mu = 0
    /\ locks' = LockTable(locks, c, now)
    /\ IF Refused(locks, c, now)
       THEN /\ Return(p, Event(p, c, OK, FALSE, AlreadyLocked, 0, 0))
            /\ nfds' = CloseOnFailure(nfds, c.top)
            /\ UNCHANGED <<issued, held>>
       ELSE /\ issued' = generateLockID
            /\ held' = Unexpired((generateLockID :> NewLock(c, now)) @@ held, now)
            /\ nfds' = nfds
            /\ IF c.top = "OpenFile"
               THEN Goto(p, "open_store",
                         [c EXCEPT !.op = "OpenFile",
                                   !.lockId = generateLockID])
               ELSE Return(p, Event(p, c, OK, TRUE, "", generateLockID, 0))
    /\ UNCHANGED <<fs, now, nticks, sessions, mu, handles, data, nedits>>

\* A LockFile request reaches its critical section with the lock type and
\* timeout it carries.
LockFileLocked(p, ltype, timeout) ==
    /\ Ready
    /\ pc[p] = "lock_check"
    /\ call[p].top = "LockFile"
    /\ LockFileCritical(p, [call[p] EXCEPT !.ltype = ltype, !.timeout = timeout])

\* ------------------------------------------------------------------------
\* UnlockFile
\* ------------------------------------------------------------------------

\* What UnlockFile answers for the table: "" when it removes the entry.
UnlockError(table, path, lockId) ==
    IF path \notin DOMAIN table THEN NotFound
    ELSE IF table[path].LockID # lockId THEN InvalidLock
    ELSE ""

\* The lock id not compared: any caller removes the entry.
UnlockTableAnyId(table, path, lockId) ==
    IF path \in DOMAIN table THEN Remove(table, path) ELSE table

\* The lock table after UnlockFile.
UnlockTable(table, path, lockId) ==
    IF UnlockError(table, path, lockId) = "" THEN Remove(table, path)
    ELSE table

\* The locks still relied on after UnlockFile: the holder of a removed
\* entry has given it up.
Release(table, path, lockId) ==
    IF UnlockError(table, path, lockId) = "" THEN Remove(held, lockId)
    ELSE held

\* UnlockFile: the path is validated, and a rejected path returns the gRPC
\* error at once; then, under the editor's mutex, the entry is looked up,
\* its lock id compared and the entry deleted. (Validation reads the file
\* system only, so the two are one step.)
UnlockFile(p, raw, lockId) ==
    /\ Ready
    /\ pc[p] = "idle"
    /\ \E v \in {validatePath(fs, raw)} :
       LET c == [NoCall EXCEPT !.op = "UnlockFile", !.top = "UnlockFile",
                               !.raw = raw, !.path = v.path,
                               !.lockId = lockId]
           err == UnlockError(locks, v.path, lockId)
       IN  IF v.code # OK
           THEN /\ Return(p, Event(p, c, v.code, FALSE, "", 0, 0))
                /\ UNCHANGED <<locks, held>>
           ELSE /\ mu = 0
                /\ locks' = UnlockTable(locks, v.path, lockId)
                /\ held' = Release(locks, v.path, lockId)
                /\ Return(p, Event(p, c, OK, err = "", err, 0, 0))
    /\ UNCHANGED <<fs, now, nticks, sessions, mu, issued, handles, nfds, data, nedits>>

\* ------------------------------------------------------------------------
\* OpenFile and CloseFile
\* ------------------------------------------------------------------------

\* Handles OpenFile calls in flight have taken.
OpenCallsInFlight ==
    Cardinality({p \in Procs : call[p].top = "OpenFile"})

\* The O_CREATE flag of OpenFile: never set for READ_ONLY.
CreateFlag(mode, create) == mode # ReadOnly /\ create

\* The FileSession OpenFile stores.
NewSession(c, t) ==
    [Handle |-> c.handle, Path |-> c.path, Mode |-> c.mode,
     LockID |-> c.lockId, CreatedAt |-> t, LastAccess |-> t,
     HasChanges |-> FALSE]

\* OpenFile up to the exclusive lock: validation, the existence check, the
\* parent directories, the open itself and the handle.
OpenFileBegin(p, raw, mode, create, excl) ==
    /\ Ready
    /\ pc[p] = "idle"
    /\ excl => issued + LockCallsInFlight < MaxLocks
    /\ \E v \in {validatePath(fs, raw)} :
       LET c == [NoCall EXCEPT !.op = "OpenFile", !.top = "OpenFile",
                               !.raw = raw, !.path = v.path, !.mode = mode,
                               !.create = create, !.excl = excl]
           st == Stat(fs, v.path)
           mk == IF create THEN MkdirAll(fs, Dir(v.path))
                 ELSE [err |-> "nil", fs |-> fs]
           op == OpenFS(mk.fs, v.path, CreateFlag(mode, create), mode # ReadOnly)
           fail(code, error, fsys) ==
               /\ Return(p, Event(p, c, code, FALSE, error, 0, 0))
               /\ fs' = fsys
               /\ UNCHANGED <<handles, nfds>>
       IN  IF v.code # OK THEN fail(v.code, "", fs)
           ELSE IF IsNotExist(st.err) /\ ~create
           THEN fail(OK, FileDoesNotExist, fs)
           ELSE IF mk.err # "nil" THEN fail(OK, MkdirFailed, mk.fs)
           ELSE IF op.err # "nil" THEN fail(OK, OpenFailed, op.fs)
           ELSE /\ fs' = op.fs
                /\ handles' = generateHandle
                /\ nfds' = nfds + 1
                /\ Goto(p, IF excl THEN "open_lock" ELSE "open_store",
                        [c EXCEPT !.handle = generateHandle])
    /\ UNCHANGED <<now, nticks, locks, sessions, mu, issued, held, data, nedits>>

\* An OpenFile request arrives, while fewer than MaxHandles handles have
\* been given out.
OpenFile(p, raw, mode, create, excl) ==
    /\ handles + OpenCallsInFlight < MaxHandles
    /\ OpenFileBegin(p, raw, mode, create, excl)

\* OpenFile with exclusiveLock calls LockFile with the raw path, Exclusive,
\* 300 seconds; an error of LockFile closes the opened descriptor.
OpenFileLock(p) ==
    /\ Ready
    /\ pc[p] = "open_lock"
    /\ LockFileEnter(p, [call[p] EXCEPT !.op = "LockFile",
                                        !.ltype = Exclusive,
                                        !.timeout = OpenLockTimeout])
    /\ UNCHANGED <<fs, now, nticks, sessions, mu, issued, held, handles, data, nedits>>

\* The LockFile call of OpenFile reaches its critical section.
OpenFileLocked(p) ==
    /\ Ready
    /\ pc[p] = "lock_check"
    /\ call[p].top = "OpenFile"
    /\ LockFileCritical(p, call[p])

\* OpenFile's last part: the session is stored under the editor's mutex and
\* the handle (and lock id) returned.
OpenFileStore(p) ==
    /\ Ready
    /\ pc[p] = "open_store"
    /\ mu = 0
    /\ LET c == call[p]
       IN  /\ sessions' = (c.handle :> NewSession(c, now)) @@ sessions
           /\ Return(p, Event(p, c, OK, TRUE, "", c.lockId, c.handle))
    /\ UNCHANGED <<fs, now, nticks, locks, mu, issued, held, handles, nfds, data, nedits>>

\* OpenFile's file.Stat() on the opened descriptor fails (an I/O error, a
\* stale handle of a network file system): the descriptor is closed and
\* the failure returned; the lock the call may have acquired is left as it
\* is.
OpenFileInfoFails(p) ==
    /\ Ready
    /\ pc[p] = "open_store"
    /\ nfds' = nfds - 1
    /\ Return(p, Event(p, call[p], OK, FALSE, FileInfoFailed, 0, 0))
    /\ UNCHANGED <<fs, now, nticks, locks, sessions, mu, issued, held, handles,
                   data, nedits>>

\* A lookup that falls back on a session of the table when the handle is
\* not one.
FindSessionAny(table, handle) ==
    IF handle \in DOMAIN table \/ table = <<>>
    THEN [exists |-> handle \in DOMAIN table, handle |-> handle]
    ELSE [exists |-> TRUE, handle |-> CHOOSE h \in DOMAIN table : TRUE]

\* session, exists := fileEditor.sessions[req.FileHandle]
FindSession(table, handle) ==
    [exists |-> handle \in DOMAIN table, handle |-> handle]

\* A close that deletes whatever entry the lock table has for the
\* session's path.
CloseLocksByPath(table, session) ==
    IF session.LockID # 0 /\ session.Path \in DOMAIN table
    THEN Remove(table, session.Path)
    ELSE table

\* The lock table after a CloseFile that returns: the UnlockFile it calls
\* for a session with a lock id has returned validatePath's error for the
\* session's stored path, before its lookup and its delete.
CloseLocks(table, session) == table

\* CloseFile, all of it under the editor's mutex. A session that owns a lock
\* makes it call UnlockFile with the session's stored (already joined) path:
\* when that path fails validation the error is dropped and the close goes
\* on; when it passes, UnlockFile waits in mu.Lock() for the mutex that
\* CloseFile itself holds, and neither ever returns.
CloseFile(p, handle) ==
    /\ Ready
    /\ pc[p] = "idle"
    /\ mu = 0
    /\ \E found \in {FindSession(sessions, handle)} :
       LET c == [NoCall EXCEPT !.op = "CloseFile", !.top = "CloseFile",
                               !.handle = handle]
       IN  IF ~found.exists
           THEN /\ Return(p, Event(p, c, OK, FALSE, InvalidHandle, 0, 0))
                /\ UNCHANGED <<sessions, locks, mu, nfds>>
           ELSE LET session == sessions[found.handle]
                    v == validatePath(fs, session.Path)
                IN  IF session.LockID # 0 /\ v.code = OK
                    THEN /\ mu' = p
                         /\ nfds' = nfds - 1
                         /\ Goto(p, "unlock_mu",
                                 [c EXCEPT !.op = "UnlockFile",
                                           !.raw = session.Path,
                                           !.path = v.path,
                                           !.lockId = session.LockID])
                         /\ sessions' = sessions
                         /\ locks' = locks
                    ELSE /\ sessions' = Remove(sessions, found.handle)
                         /\ locks' = CloseLocks(locks, session)
                         /\ nfds' = nfds - 1
                         /\ mu' = mu
                         /\ Return(p, Event(p, [c EXCEPT !.path = session.Path],
                                            OK, TRUE, "", session.LockID,
                                            found.handle))
    /\ UNCHANGED <<fs, now, nticks, issued, held, handles, data, nedits>>

\* ------------------------------------------------------------------------
\* WriteFileContent, UpdateFileLines, ReadFileContent
\* ------------------------------------------------------------------------

\* The request fields an editing call reads after its first step.
NoReq == [content |-> <<>>, truncate |-> FALSE, backup |-> FALSE, updates |-> <<>>]

\* The record of a returned editing call: c is the request and req its late
\* fields, code the gRPC status, success/error the response fields, content
\* and lineCount what ReadFileContent returned; with it the clock, the
\* files and the two tables as the returning step found them.
EditEvent(c, req, code, success, error, content, lineCount) ==
    [op |-> c.top, raw |-> c.raw, path |-> c.path, reqHandle |-> c.handle,
     req |-> req, code |-> code, success |-> success, error |-> error,
     content |-> content, lineCount |-> lineCount, start |-> c.start,
     time |-> now, preFs |-> fs, preData |-> data, preLocks |-> locks,
     preSessions |-> sessions]

\* Editing calls that have not yet done their file I/O.
EditsInFlight ==
    Cardinality({p \in Procs : pc[p] \in {"write_mark", "write_io", "update_io",
                                          "update_write"}})

\* Every session taken as writable.
WritableAlways(session) == TRUE

\* if session.Mode == pb.FileOpenMode_READ_ONLY { return ... }
Writable(session) == session.Mode # ReadOnly

\* The first step of WriteFileContent and UpdateFileLines: with a handle,
\* the session is looked up under the read lock, an unknown handle and a
\* READ_ONLY session are refused, and the session's stored path is used;
\* without one, the raw path is validated.
EditEnter(p, c, byHandle, byPath) ==
    IF c.handle # 0
    THEN /\ mu = 0
         /\ IF c.handle \notin DOMAIN sessions
            THEN Return(p, EditEvent(c, NoReq, OK, FALSE, InvalidHandle, <<>>, 0))
            ELSE IF ~Writable(sessions[c.handle])
            THEN Return(p, EditEvent([c EXCEPT !.path = sessions[c.handle].Path],
                                     NoReq, OK, FALSE, ReadOnlyMode, <<>>, 0))
            ELSE Goto(p, byHandle, [c EXCEPT !.path = sessions[c.handle].Path])
    ELSE \E v \in {validatePath(fs, c.raw)} :
            IF v.code # OK
            THEN Return(p, EditEvent(c, NoReq, v.code, FALSE, "", <<>>, 0))
            ELSE Goto(p, byPath, [c EXCEPT !.path = v.path])

\* A mark that records the access only.
MarkAccessOnly(table, handle, t) ==
    IF handle \in DOMAIN table
    THEN [table EXCEPT ![handle].LastAccess = t]
    ELSE table

\* session.HasChanges = true; session.LastAccess = time.Now(), on the
\* record if the table still holds it.
Mark(table, handle, t) ==
    IF handle \in DOMAIN table
    THEN [table EXCEPT ![handle].HasChanges = TRUE, ![handle].LastAccess = t]
    ELSE table

\* A WriteFileContent request arrives, with a file handle (not 0) or a raw
\* path.
WriteFileContent(p, handle, raw) ==
    /\ Ready
    /\ pc[p] = "idle"
    /\ nedits + EditsInFlight < MaxEdits
    /\ EditEnter(p, [NoCall EXCEPT !.op = "WriteFileContent",
                                   !.top = "WriteFileContent", !.raw = raw,
                                   !.handle = handle, !.start = now],
                 "write_mark", "write_io")
    /\ UNCHANGED <<fs, now, nticks, locks, sessions, mu, issued, held, handles,
                   nfds, data, nedits>>

\* WriteFileContent with a handle marks the session, under the editor's
\* mutex, before it touches the file.
WriteMark(p) ==
    /\ Ready
    /\ pc[p] = "write_mark"
    /\ mu = 0
    /\ sessions' = Mark(sessions, call[p].handle, now)
    /\ Goto(p, "write_io", call[p])
    /\ UNCHANGED <<fs, now, nticks, locks, mu, issued, held, handles, nfds,
                   data, nedits>>

\* A backup step whose failure is not looked at.
WriteBackupIgnoreError(fsys, dat, path, backup, t) ==
    IF backup /\ Stat(fsys, path).err = "nil"
    THEN [copyFileForBackup(fsys, dat, path, BackupPath(path, t))
             EXCEPT !.err = "nil"]
    ELSE [err |-> "nil", fs |-> fsys, data |-> dat]

\* The backup step of WriteFileContent: taken only when the target exists.
WriteBackup(fsys, dat, path, backup, t) ==
    IF backup /\ Stat(fsys, path).err = "nil"
    THEN copyFileForBackup(fsys, dat, path, BackupPath(path, t))
    ELSE [err |-> "nil", fs |-> fsys, data |-> dat]

\* WriteFileContent's file I/O: the backup if requested, then the file is
\* opened O_WRONLY|O_CREATE (O_TRUNC if asked) and the content written.
WriteIO(p, content, truncate, backup) ==
    /\ Ready
    /\ pc[p] = "write_io"
    /\ LET c == call[p]
           req == [NoReq EXCEPT !.content = content, !.truncate = truncate,
                                !.backup = backup]
       IN  \E bk \in {WriteBackup(fs, data, c.path, backup, now)} :
           \E wr \in {WriteFS(bk.fs, bk.data, c.path, content, truncate)} :
              IF bk.err # "nil"
              THEN /\ fs' = bk.fs
                   /\ data' = bk.data
                   /\ Return(p, EditEvent(c, req, OK, FALSE, BackupFailed, <<>>, 0))
              ELSE /\ fs' = wr.fs
                   /\ data' = wr.data
                   /\ Return(p, EditEvent(c, req, OK, wr.err = "nil",
                                          IF wr.err = "nil" THEN ""
                                          ELSE WriteOpenFailed, <<>>, 0))
    /\ nedits' = nedits + 1
    /\ UNCHANGED <<now, nticks, locks, sessions, mu, issued, held, handles, nfds>>

\* An UpdateFileLines request arrives, with a file handle (not 0) or a raw
\* path.
UpdateFileLines(p, handle, raw) ==
    /\ Ready
    /\ pc[p] = "idle"
    /\ nedits + EditsInFlight < MaxEdits
    /\ EditEnter(p, [NoCall EXCEPT !.op = "UpdateFileLines",
                                   !.top = "UpdateFileLines", !.raw = raw,
                                   !.handle = handle, !.start = now],
                 "update_io", "update_io")
    /\ UNCHANGED <<fs, now, nticks, locks, sessions, mu, issued, held, handles,
                   nfds, data, nedits>>

\* The number UpdateFileLines reports in "Successfully applied %d line
\* updates": len(req.Updates).
AppliedCount(updates) == Len(updates)

\* The response of a successful UpdateFileLines, with the number of
\* updates it reports as applied.
UpdateAnswer(c, req, applied) ==
    [applied |-> applied] @@ EditEvent(c, req, OK, TRUE, "", <<>>, 0)

\* The backup step of UpdateFileLines: taken whether or not the target
\* exists.
UpdateBackup(fsys, dat, path, backup, t) ==
    IF backup
    THEN copyFileForBackup(fsys, dat, path, BackupPath(path, t))
    ELSE [err |-> "nil", fs |-> fsys, data |-> dat]

\* UpdateFileLines' file I/O: the backup copy if requested, the read, the
\* update loop, the write of the joined lines; with a handle the session is
\* marked next. (One step: for calls whose read and write no other call's
\* file I/O comes between; UpdateRead and UpdateWrite take them apart.)
UpdateIO(p, updates, backup) ==
    /\ Ready
    /\ pc[p] = "update_io"
    /\ LET c == call[p]
           req == [NoReq EXCEPT !.updates = updates, !.backup = backup]
       IN  \E bk \in {UpdateBackup(fs, data, c.path, backup, now)} :
           \E rd \in {ReadFile(bk.fs, bk.data, c.path)} :
           \E split \in {SplitLines(rd.content)} :
           \E lines \in {ApplyUpdates(split, updates)} :
           \E wr \in {WriteFS(bk.fs, bk.data, c.path, JoinLines(lines), TRUE)} :
              IF bk.err # "nil"
              THEN /\ fs' = bk.fs
                   /\ data' = bk.data
                   /\ Return(p, EditEvent(c, req, OK, FALSE, BackupFailed, <<>>, 0))
              ELSE IF rd.err # "nil"
              THEN /\ fs' = bk.fs
                   /\ data' = bk.data
                   /\ Return(p, EditEvent(c, req, OK, FALSE, ReadFailed, <<>>, 0))
              ELSE /\ fs' = wr.fs
                   /\ data' = wr.data
                   /\ IF wr.err # "nil"
                      THEN Return(p, EditEvent(c, req, OK, FALSE, WriteBackFailed,
                                               <<>>, 0))
                      ELSE IF c.handle # 0
                      THEN Goto(p, "update_mark",
                                [c EXCEPT !.applied = AppliedCount(updates)])
                      ELSE Return(p, UpdateAnswer(c, req, AppliedCount(updates)))
    /\ nedits' = nedits + 1
    /\ UNCHANGED <<now, nticks, locks, sessions, mu, issued, held, handles, nfds>>

\* UpdateFileLines' read, taken by itself (no backup): os.ReadFile into the
\* call's memory; other calls may run before the write that follows.
UpdateRead(p) ==
    /\ Ready
    /\ pc[p] = "update_io"
    /\ \E rd \in {ReadFile(fs, data, call[p].path)} :
          IF rd.err # "nil"
          THEN Return(p, EditEvent(call[p], NoReq, OK, FALSE, ReadFailed, <<>>, 0))
          ELSE Goto(p, "update_write", [call[p] EXCEPT !.buf = rd.content])
    /\ UNCHANGED <<fs, now, nticks, locks, sessions, mu, issued, held, handles,
                   nfds, data, nedits>>

\* UpdateFileLines' update loop and write, taken by itself: the updates
\* are applied to the lines read earlier and the joined lines written
\* over the file; with a handle the session is marked next.
UpdateWrite(p, updates) ==
    /\ Ready
    /\ pc[p] = "update_write"
    /\ LET c == [call[p] EXCEPT !.buf = <<>>]
           req == [NoReq EXCEPT !.updates = updates]
       IN  \E lines \in {ApplyUpdates(SplitLines(call[p].buf), updates)} :
           \E wr \in {WriteFS(fs, data, c.path, JoinLines(lines), TRUE)} :
              /\ fs' = wr.fs
              /\ data' = wr.data
              /\ IF wr.err # "nil"
                 THEN Return(p, EditEvent(c, req, OK, FALSE, WriteBackFailed,
                                          <<>>, 0))
                 ELSE IF c.handle # 0
                 THEN Goto(p, "update_mark",
                           [c EXCEPT !.applied = AppliedCount(updates)])
                 ELSE Return(p, UpdateAnswer(c, req, AppliedCount(updates)))
    /\ nedits' = nedits + 1
    /\ UNCHANGED <<now, nticks, locks, sessions, mu, issued, held, handles, nfds>>

\* UpdateFileLines with a handle marks the session, if the table still has
\* it, after the file was written, and returns.
UpdateMark(p) ==
    /\ Ready
    /\ pc[p] = "update_mark"
    /\ mu = 0
    /\ sessions' = Mark(sessions, call[p].handle, now)
    /\ Return(p, UpdateAnswer(call[p], NoReq, call[p].applied))
    /\ UNCHANGED <<fs, now, nticks, locks, mu, issued, held, handles, nfds,
                   data, nedits>>

\* A count that takes an empty file for one empty line.
LineCountAlways(content) == CountNL(content) + 1

\* The line count ReadFileContent reports.
LineCount(content) == IF Len(content) = 0 THEN 0 ELSE CountNL(content) + 1

\* The response of ReadFileContent to a valid path.
ReadAnswer(fsys, dat, path) ==
    LET Answer(rd) ==
            IF rd.err # "nil"
            THEN [success |-> FALSE,
                  error |-> IF IsNotExist(rd.err) THEN FileDoesNotExist
                            ELSE ReadFailed,
                  content |-> <<>>, lineCount |-> 0]
            ELSE [success |-> TRUE, error |-> "", content |-> rd.content,
                  lineCount |-> LineCount(rd.content)]
    IN  Answer(ReadFile(fsys, dat, path))

\* ReadFileContent
ReadFileContent(p, raw) ==
    /\ Ready
    /\ pc[p] = "idle"
    /\ LET c == [NoCall EXCEPT !.op = "ReadFileContent",
                               !.top = "ReadFileContent", !.raw = raw,
                               !.start = now]
       IN  \E v \in {validatePath(fs, raw)} :
              IF v.code # OK
              THEN Return(p, EditEvent(c, NoReq, v.code, FALSE, "", <<>>, 0))
              ELSE \E a \in {ReadAnswer(fs, data, v.path)} :
                      Return(p, EditEvent([c EXCEPT !.path = v.path], NoReq, OK,
                                          a.success, a.error, a.content,
                                          a.lineCount))
    /\ UNCHANGED <<fs, now, nticks, locks, sessions, mu, issued, held, handles,
                   nfds, data, nedits>>

\* ------------------------------------------------------------------------
\* GetFileLines
\* ------------------------------------------------------------------------

CR == "\r"

\* The position of the first newline of s; 0 when it has none.
IndexNL(s) ==
    IF \E i \in 1..Len(s) : s[i] = NL
    THEN CHOOSE i \in 1..Len(s) : s[i] = NL /\ \A j \in 1..(i - 1) : s[j] # NL
    ELSE 0

\* A token without its final carriage return.
dropCR(t) ==
    IF Len(t) > 0 /\ t[Len(t)] = CR THEN SubSeq(t, 1, Len(t) - 1) ELSE t

\* The tokens scanner.Scan() yields with the default split function: each
\* run of bytes up to a newline, and what follows the last newline when
\* it is not empty; every token loses a final carriage return.
RECURSIVE ScanLines(_)
ScanLines(s) ==
    LET Tokens(i) ==
            IF i = 0 THEN << dropCR(s) >>
            ELSE << dropCR(SubSeq(s, 1, i - 1)) >>
                     \o ScanLines(SubSeq(s, i + 1, Len(s)))
    IN  IF s = <<>> THEN <<>> ELSE Tokens(IndexNL(s))

\* pb.GetFileLinesRequest
LinesRequest(startLine, endLine, includeLineNumbers) ==
    [StartLine |-> startLine, EndLine |-> endLine,
     IncludeLineNumbers |-> includeLineNumbers]

\* pb.FileLine
FileLine(content, lineNumber) ==
    [Content |-> content, Length |-> Len(content), LineNumber |-> lineNumber]

\* for scanner.Scan() { ... }: every token read is counted; one before
\* StartLine is passed over, the first one after EndLine ends the loop,
\* any other is appended with its length and, when asked for, its number.
RECURSIVE ScanLoop(_, _, _)
ScanLoop(tokens, st, req) ==
    LET counted == [st EXCEPT !.totalLines = @ + 1]
    IN  IF tokens = <<>> THEN st
        ELSE IF req.StartLine > 0 /\ st.lineNumber < req.StartLine
        THEN ScanLoop(Tail(tokens), [counted EXCEPT !.lineNumber = @ + 1], req)
        ELSE IF req.EndLine > 0 /\ st.lineNumber > req.EndLine
        THEN counted
        ELSE ScanLoop(Tail(tokens),
                      [counted EXCEPT
                          !.lineNumber = @ + 1,
                          !.lines = Append(@, FileLine(Head(tokens),
                                        IF req.IncludeLineNumbers
                                        THEN st.lineNumber ELSE 0))],
                      req)

\* The response of GetFileLines once it has its path: os.Open, the scan,
\* scanner.Err().
LinesAnswer(fsys, dat, path, req) ==
    LET Answer(rd) ==
            IF IsNotExist(rd.err)
            THEN [success |-> FALSE, error |-> FileDoesNotExist,
                  lines |-> <<>>, totalLines |-> 0]
            ELSE IF rd.err = "EISDIR"
            THEN [success |-> FALSE, error |-> ScanFailed,
                  lines |-> <<>>, totalLines |-> 0]
            ELSE IF rd.err # "nil"
            THEN [success |-> FALSE, error |-> OpenFailed,
                  lines |-> <<>>, totalLines |-> 0]
            ELSE LET Scanned(st) ==
                        [success |-> TRUE, error |-> "", lines |-> st.lines,
                         totalLines |-> st.totalLines]
                 IN  Scanned(ScanLoop(ScanLines(rd.content),
                                      [lineNumber |-> 1, totalLines |-> 0,
                                       lines |-> <<>>],
                                      req))
    IN  Answer(ReadFile(fsys, dat, path))

\* The record of a returned GetFileLines call.
LinesEvent(c, req, code, success, error, lines, totalLines) ==
    [lines |-> lines, totalLines |-> totalLines]
        @@ EditEvent(c, req, code, success, error, <<>>, 0)

\* GetFileLines: with a handle, the session is looked up under the read
\* lock, an unknown handle is refused and the session's stored path is
\* used; without one, the raw path is validated. The file is then read
\* outside the mutex; the session table is only read.
GetFileLines(p, handle, raw, req) ==
    /\ Ready
    /\ pc[p] = "idle"
    /\ LET c == [NoCall EXCEPT !.op = "GetFileLines", !.top = "GetFileLines",
                               !.raw = raw, !.handle = handle, !.start = now]
           Answered(cc, a) ==
               Return(p, LinesEvent(cc, req, OK, a.success, a.error, a.lines,
                                    a.totalLines))
       IN  IF handle # 0
           THEN /\ mu = 0
                /\ IF handle \notin DOMAIN sessions
                   THEN Return(p, LinesEvent(c, req, OK, FALSE,
                                             InvalidHandle, <<>>, 0))
                   ELSE Answered([c EXCEPT !.path = sessions[handle].Path],
                                 LinesAnswer(fs, data, sessions[handle].Path,
                                             req))
           ELSE \E v \in {validatePath(fs, raw)} :
                   IF v.code # OK
                   THEN Return(p, LinesEvent(c, req, v.code, FALSE, "",
                                             <<>>, 0))
                   ELSE Answered([c EXCEPT !.path = v.path],
                                 LinesAnswer(fs, data, v.path, req))
    /\ UNCHANGED <<fs, now, nticks, locks, sessions, mu, issued, held, handles,
                   nfds, data, nedits>>

\* ------------------------------------------------------------------------
\* Specifications
\* ------------------------------------------------------------------------

\* The lock ids and handles a caller may present: those generated so far
\* and one that no call has returned.
LockIds == 1..(issued + 1)
Handles == 1..(handles + 1)

\* The returned response has been seen; the daemon's next step follows.
Deliver ==
    /\ ev # NoEvent
    /\ ev' = NoEvent
    /\ UNCHANGED <<fs, now, nticks, locks, sessions, mu, pc, call, issued, held, handles,
                 nfds, data, nedits>>

\* The editor: sessions and locks of two concurrent callers on the file a,
\* on both layouts; every lock lasts 300 seconds (LockFile's default, and
\* what OpenFile asks for) and the clock advances by that much.
OpenPaths == {nA}
OpenModes == {ReadWrite}

Next ==
    \/ Deliver
    \/ Tick(OpenLockTimeout)
    \/ \E p \in Procs, raw \in OpenPaths : LockFile(p, raw)
    \/ \E p \in Procs, t \in LockTypes : LockFileLocked(p, t, 0)
    \/ \E p \in Procs, raw \in OpenPaths, id \in LockIds : UnlockFile(p, raw, id)
    \/ \E p \in Procs, raw \in OpenPaths, m \in OpenModes, ex \in BOOLEAN :
          OpenFile(p, raw, m, FALSE, ex)
    \/ \E p \in Procs : OpenFileLock(p)
    \/ \E p \in Procs : OpenFileLocked(p)
    \/ \E p \in Procs : OpenFileStore(p)
    \/ \E p \in Procs, h \in Handles : CloseFile(p, h)

Spec == Init /\ [][Next]_vars

\* The lock manager alone: LockFile and UnlockFile calls of two concurrent
\* callers on the plain layout, and the clock in seconds.
InitLock ==
    /\ fs = StartFS(FALSE)
    /\ data = <<>>
    /\ InitTables

NextLock ==
    \/ Deliver
    \/ Tick(1)
    \/ \E p \in Procs, raw \in RawPaths : LockFile(p, raw)
    \/ \E p \in Procs, t \in LockTypes, secs \in Timeouts : LockFileLocked(p, t, secs)
    \/ \E p \in Procs, raw \in RawPaths, id \in LockIds : UnlockFile(p, raw, id)

SpecLock == InitLock /\ [][NextLock]_vars

\* validatePath alone: one call per behaviour, on every layout and raw path
\* within the bounds.
PathDepth == 3
PathNames == {DotDot, nA, nL, nDo, nE, nX}

\* The component sequences of at most n names.
RECURSIVE CompSeqs(_)
CompSeqs(n) ==
    IF n = 0 THEN {<<>>}
    ELSE LET shorter == CompSeqs(n - 1)
         IN  shorter \cup {Append(cs, c) : cs \in {t \in shorter : Len(t) = n - 1},
                                           c \in PathNames}

\* The raw paths of the requests: relative, with ".." anywhere.
PathInputs == {JoinSep(cs) : cs \in CompSeqs(PathDepth) \ {<<>>}}

\* Where the symlink /d/l may point: outside the root, into the sibling
\* /do, at the file a, or outside by a relative target. <<>>: no symlink.
LinkTargets == {<<Sep>> \o nE, <<Sep>> \o nDo, BaseDir \o <<Sep>> \o nA,
                DotDot \o <<Sep>> \o nE}

Presence == {"missing", "empty", "full"}

\* A directory at comps that is missing, empty, or holds the file x.
Subtree(comps, presence) ==
    IF presence = "missing" THEN <<>>
    ELSE IF presence = "empty" THEN (comps :> DirNode)
    ELSE (comps :> DirNode) @@ (Append(comps, nX) :> FileNode)

\* A layout: the root /d with or without the file a and the symlink l, the
\* sibling directory /do and the outside directory /e.
PathLayout(hasA, link, sibling, outside) ==
    (<<>> :> DirNode) @@ (<<nD>> :> DirNode)
    @@ (IF hasA THEN (<<nD, nA>> :> FileNode) ELSE <<>>)
    @@ (IF link # <<>> THEN (<<nD, nL>> :> LinkNode(link)) ELSE <<>>)
    @@ Subtree(<<nDo>>, sibling) @@ Subtree(<<nE>>, outside)

PathLayouts ==
    {PathLayout(hasA, link, sibling, outside) :
        hasA \in BOOLEAN, link \in LinkTargets \cup {<<>>},
        sibling \in Presence, outside \in Presence}

InitPath ==
    /\ fs \in PathLayouts
    /\ data = <<>>
    /\ InitTables

\* A handler validates the raw path of its request.
Validate(raw) ==
    /\ Ready
    /\ \E v \in {validatePath(fs, raw)} :
          ev' = [op |-> "validatePath", raw |-> raw, code |-> v.code,
                 path |-> v.path]
    /\ UNCHANGED <<fs, now, nticks, locks, sessions, mu, pc, call, issued, held, handles,
                 nfds, data, nedits>>

NextPath ==
    \/ Deliver
    \/ \E raw \in PathInputs : Validate(raw)

SpecPath == InitPath /\ [][NextPath]_vars

\* UpdateFileLines alone: one batch of at most MaxBatch updates per
\* behaviour, by path, on a file that is empty, holds one line and its
\* newline, or holds five lines.
MaxBatch == 2

ch1 == "1"
ch2 == "2"
ch3 == "3"
ch4 == "4"
ch5 == "5"
chX == "X"
chY == "Y"
FiveLines == <<ch1, NL, ch2, NL, ch3, NL, ch4, NL, ch5>>
LineFiles == {<<>>, <<ch1, NL>>, FiveLines}

LineUpdate(operation, lineNumber, newContent) ==
    [Operation |-> operation, LineNumber |-> lineNumber, NewContent |-> newContent]

\* The line numbers of a request: from -1 to two past the last line of
\* the longest file.
LineNumbers == -1..(Len(SplitLines(FiveLines)) + 2)

\* The updates of a request: X to replace with, Y to insert.
LineUpdates ==
    {LineUpdate(o, n, IF o = OpReplace THEN <<chX>>
                      ELSE IF o = OpDelete THEN <<>> ELSE <<chY>>) :
        o \in LineOperations, n \in LineNumbers}

\* The batches of at most n updates.
RECURSIVE Batches(_)
Batches(n) ==
    IF n = 0 THEN {<<>>}
    ELSE LET shorter == Batches(n - 1)
         IN  shorter \cup {Append(b, u) : b \in {t \in shorter : Len(t) = n - 1},
                                          u \in LineUpdates}

InitLines ==
    /\ fs = StartFS(FALSE)
    /\ \E content \in LineFiles : data = (<<nD, nA>> :> content)
    /\ InitTables

NextLines ==
    \/ Deliver
    \/ nedits = 0 /\ UpdateFileLines(1, 0, nA)
    \/ pc[1] = "update_io" /\ \E updates \in Batches(MaxBatch) :
                                 UpdateIO(1, updates, FALSE)

SpecLines == InitLines /\ [][NextLines]_vars

\* The editing calls by path, one after the other, on a directory whose
\* file a holds some bytes, whose file x does not exist and where the name
\* of a's first backup may be taken by a directory.
EditPaths == {nA, nX}
EditFiles == {<<ch1>>, <<ch1, NL, ch2>>}
EditContents == {<<chX>>, <<chX, NL, chY, NL>>}
EditBatches == {<<>>, <<LineUpdate(OpReplace, 1, <<chX>>)>>}
TakenName == <<nD, nA \o BackupSuffix \o FormatInt(0)>>

InitWrite ==
    /\ fs \in {StartFS(FALSE), (TakenName :> DirNode) @@ StartFS(FALSE)}
    /\ \E content \in EditFiles : data = (<<nD, nA>> :> content)
    /\ InitTables

NextWrite ==
    \/ Deliver
    \/ Tick(1)
    \/ \E raw \in EditPaths : WriteFileContent(1, 0, raw)
    \/ \E content \in EditContents, truncate, backup \in BOOLEAN :
          WriteIO(1, content, truncate, backup)
    \/ \E raw \in EditPaths : UpdateFileLines(1, 0, raw)
    \/ \E updates \in EditBatches, backup \in BOOLEAN :
          UpdateIO(1, updates, backup)
    \/ \E raw \in EditPaths : ReadFileContent(1, raw)

SpecWrite == InitWrite /\ [][NextWrite]_vars

\* The editing calls through the handle of a session on the file a, opened
\* READ_ONLY or READ_WRITE without a lock, by concurrent callers.
EditModes == {ReadOnly, ReadWrite}

InitSession ==
    /\ fs = StartFS(FALSE)
    /\ data = (<<nD, nA>> :> <<ch1, NL, ch2>>)
    /\ InitTables

NextSession ==
    \/ Deliver
    \/ Tick(1)
    \/ \E p \in Procs, m \in EditModes : OpenFile(p, nA, m, FALSE, FALSE)
    \/ \E p \in Procs : OpenFileStore(p)
    \/ \E p \in Procs, h \in Handles : CloseFile(p, h)
    \/ \E p \in Procs, h \in Handles : WriteFileContent(p, h, <<>>)
    \/ \E p \in Procs : WriteMark(p)
    \/ \E p \in Procs : WriteIO(p, <<chX>>, TRUE, FALSE)
    \/ \E p \in Procs, h \in Handles : UpdateFileLines(p, h, <<>>)
    \/ \E p \in Procs :
          UpdateIO(p, <<LineUpdate(OpReplace, 1, <<chX>>)>>, FALSE)
    \/ \E p \in Procs : UpdateMark(p)

SpecSession == InitSession /\ [][NextSession]_vars

\* One caller editing the file a through a READ_WRITE session, with and
\* without a backup, where the name of the first backup may be taken by a
\* directory. Every edit that succeeds changes a's bytes for good: what is
\* written is never what a held at the start.
DirtyBytes == <<ch1, NL, ch2>>

InitDirty ==
    /\ fs \in {StartFS(FALSE), (TakenName :> DirNode) @@ StartFS(FALSE)}
    /\ data = (<<nD, nA>> :> DirtyBytes)
    /\ InitTables

NextDirty ==
    \/ Deliver
    \/ Tick(1)
    \/ OpenFile(1, nA, ReadWrite, FALSE, FALSE)
    \/ OpenFileStore(1)
    \/ \E h \in Handles : WriteFileContent(1, h, <<>>)
    \/ WriteMark(1)
    \/ \E backup \in BOOLEAN : WriteIO(1, <<chX>>, TRUE, backup)
    \/ \E h \in Handles : UpdateFileLines(1, h, <<>>)
    \/ \E backup \in BOOLEAN :
          UpdateIO(1, <<LineUpdate(OpReplace, 1, <<chX>>)>>, backup)
    \/ UpdateMark(1)

SpecDirty == InitDirty /\ [][NextDirty]_vars

\* OpenFile in every mode, with and without createIfNotExists, on the
\* file a, on the missing file x and on n/x, whose directory n is missing
\* too; and CloseFile.
nN == <<"n">>
DeepPath == nN \o <<Sep>> \o nX
NewPaths == {nA, nX, DeepPath}

InitOpen ==
    /\ fs = StartFS(FALSE)
    /\ data = <<>>
    /\ InitTables

NextOpen ==
    \/ Deliver
    \/ Tick(1)
    \/ \E p \in Procs, raw \in NewPaths, m \in Modes, create \in BOOLEAN :
          OpenFile(p, raw, m, create, FALSE)
    \/ \E p \in Procs : OpenFileStore(p)
    \/ \E p \in Procs, h \in Handles : CloseFile(p, h)

SpecOpen == InitOpen /\ [][NextOpen]_vars

\* The reads, by path and through the handle of a READ_ONLY session, of
\* one caller on the file a, which is empty or holds one line and its
\* newline, three lines, or two lines parted by a carriage return and a
\* newline.
ThreeLines == <<ch1, NL, ch2, NL, ch3>>
ReadFiles == {<<>>, <<ch1, NL>>, ThreeLines, <<ch1, CR, NL, ch2>>}

\* The line numbers of a read request: from 0 (no bound) to one past the
\* last line of the longest file.
ReadNumbers == 0..(Len(SplitLines(ThreeLines)) + 1)

InitRead ==
    /\ fs = StartFS(FALSE)
    /\ \E content \in ReadFiles : data = (<<nD, nA>> :> content)
    /\ InitTables

NextRead ==
    \/ Deliver
    \/ Tick(1)
    \/ OpenFile(1, nA, ReadOnly, FALSE, FALSE)
    \/ OpenFileStore(1)
    \/ ReadFileContent(1, nA)
    \/ \E h \in {0} \cup Handles, startLine, endLine \in ReadNumbers,
          numbered \in BOOLEAN :
          GetFileLines(1, h, nA, LinesRequest(startLine, endLine, numbered))

SpecRead == InitRead /\ [][NextRead]_vars

\* The grants: LockFile with a timeout of 0 or 1 second and OpenFile with
\* exclusiveLock, by concurrent callers on the file a, under a clock that
\* advances by a second.
InitGrant ==
    /\ fs = StartFS(FALSE)
    /\ data = <<>>
    /\ InitTables

NextGrant ==
    \/ Deliver
    \/ Tick(1)
    \/ \E p \in Procs : LockFile(p, nA)
    \/ \E p \in Procs, t \in LockTypes, secs \in Timeouts :
          LockFileLocked(p, t, secs)
    \/ \E p \in Procs : OpenFile(p, nA, ReadWrite, FALSE, TRUE)
    \/ \E p \in Procs : OpenFileLock(p)
    \/ \E p \in Procs : OpenFileLocked(p)
    \/ \E p \in Procs : OpenFileStore(p)

SpecGrant == InitGrant /\ [][NextGrant]_vars

\* A lock and the edits of another caller: caller 1 locks the file a and
\* may unlock it, caller 2 writes and updates a by path, under a clock
\* that advances by a second.
InitGuard ==
    /\ fs = StartFS(FALSE)
    /\ data = (<<nD, nA>> :> <<ch1, NL, ch2>>)
    /\ InitTables

NextGuard ==
    \/ Deliver
    \/ Tick(1)
    \/ LockFile(1, nA)
    \/ \E t \in LockTypes : LockFileLocked(1, t, 0)
    \/ \E id \in LockIds : UnlockFile(1, nA, id)
    \/ WriteFileContent(2, 0, nA)
    \/ WriteIO(2, <<chX>>, TRUE, FALSE)
    \/ UpdateFileLines(2, 0, nA)
    \/ UpdateIO(2, <<LineUpdate(OpReplace, 1, <<chY>>)>>, FALSE)

SpecGuard == InitGuard /\ [][NextGuard]_vars

\* OpenFile with exclusiveLock, again and again, by concurrent callers on
\* the file a, nobody closing; the file information of the opened file
\* may fail to be read; the clock advances by the 300 seconds the lock of
\* a session lasts.
MaxSessions == 2

InitExclusive ==
    /\ fs = StartFS(FALSE)
    /\ data = <<>>
    /\ InitTables

NextExclusive ==
    \/ Deliver
    \/ Tick(OpenLockTimeout)
    \/ \E p \in Procs :
          /\ handles + OpenCallsInFlight < MaxSessions
          /\ OpenFileBegin(p, nA, ReadWrite, FALSE, TRUE)
    \/ \E p \in Procs : OpenFileLock(p)
    \/ \E p \in Procs : OpenFileLocked(p)
    \/ \E p \in Procs : OpenFileStore(p)
    \/ \E p \in Procs : OpenFileInfoFails(p)

SpecExclusive == InitExclusive /\ [][NextExclusive]_vars

\* Two UpdateFileLines calls by path on the file a at the same time, each
\* with its own batch: caller 1 replaces line 1 by X, caller 2 replaces
\* line 2 by Y. Both calls arrive before either has written, so that each
\* caller makes one call.
RaceFiles == {<<ch1, NL, ch2>>, ThreeLines}
RaceBatch(p) ==
    IF p = 1 THEN <<LineUpdate(OpReplace, 1, <<chX>>)>>
    ELSE <<LineUpdate(OpReplace, 2, <<chY>>)>>

InitRace ==
    /\ fs = StartFS(FALSE)
    /\ \E content \in RaceFiles : data = (<<nD, nA>> :> content)
    /\ InitTables

NextRace ==
    \/ Deliver
    \/ Tick(1)
    \/ \E p \in Procs : nedits = 0 /\ UpdateFileLines(p, 0, nA)
    \/ \E p \in Procs : UpdateRead(p)
    \/ \E p \in Procs : UpdateWrite(p, RaceBatch(p))

SpecRace == InitRace /\ [][NextRace]_vars

\* LockFile with any timeoutSeconds an int32 request field carries: a
\* negative one, 0 and a positive one, by concurrent callers on the file a.
SignedTimeouts == {-1, 0, 1}

InitSigned ==
    /\ fs = StartFS(FALSE)
    /\ data = <<>>
    /\ InitTables

NextSigned ==
    \/ Deliver
    \/ Tick(1)
    \/ \E p \in Procs : LockFile(p, nA)
    \/ \E p \in Procs, t \in LockTypes, secs \in SignedTimeouts :
          LockFileLocked(p, t, secs)

SpecSigned == InitSigned /\ [][NextSigned]_vars

\* ------------------------------------------------------------------------
\* Path confinement (C1, C2)
\* ------------------------------------------------------------------------

\* comps lies under root component by component (or is root itself).
IsUnder(comps, root) ==
    /\ Len(comps) >= Len(root)
    /\ SubSeq(comps, 1, Len(root)) = root

\* Where a path lands: symlinks followed as far as the path exists, the
\* missing remainder (and what follows a plain file) taken lexically.
RECURSIVE Lands(_, _, _)
Lands(fsys, dest, rest) ==
    IF rest = <<>> THEN dest
    ELSE LET c == Head(rest)
             more == Tail(rest)
             d == Append(dest, c)
         IN  IF c = <<>> \/ c = Dot THEN Lands(fsys, dest, more)
             ELSE IF c = DotDot
             THEN Lands(fsys, IF dest = <<>> THEN <<>>
                              ELSE SubSeq(dest, 1, Len(dest) - 1), more)
             ELSE IF d \notin DOMAIN fsys \/ fsys[d].kind # "link"
             THEN Lands(fsys, d, more)
             ELSE IF IsRooted(fsys[d].target)
             THEN Lands(fsys, <<>>, Split(fsys[d].target) \o more)
             ELSE Lands(fsys, dest, Split(fsys[d].target) \o more)

\* The raw path, joined to the root, lands outside the root.
Escapes(fsys, raw) ==
    ~IsUnder(Lands(fsys, <<>>, Split(BaseDir \o <<Sep>> \o raw)), Comps(BaseDir))

\* C1: every raw path that, by its ".." segments or through a symlink, lands
\* outside the authorized root is answered PermissionDenied by validatePath
\* (no other error and no path), whether or not the target or its parent
\* exists.
C1_EscapeIsPermissionDenied ==
    (ev.op = "validatePath" /\ Escapes(fs, ev.raw)) => ev.code = PermissionDenied

\* What validatePath checked of an accepted path: its symlink-resolved form
\* or, for a path that does not exist yet, its resolved parent directory.
Checked(fsys, fullPath) ==
    LET real == EvalSymlinks(fsys, fullPath)
    IN  IF real.err = "nil" THEN real.path
        ELSE EvalSymlinks(fsys, Dir(fullPath)).path

\* C2: whenever validatePath succeeds, the resolved path (or resolved parent
\* of a path that does not exist yet) is the root or a descendant of it
\* component by component; nothing in the sibling /do is accepted.
C2_AcceptedIsUnderRoot ==
    (ev.op = "validatePath" /\ ev.code = OK)
        => IsUnder(Comps(Checked(fs, ev.path)), Comps(BaseDir))

\* ------------------------------------------------------------------------
\* Locks (C3 .. C10)
\* ------------------------------------------------------------------------

\* Two locks that different requests were granted on one path and that
\* both holders still rely on.
HeldTogether(i, j) ==
    /\ i \in DOMAIN held
    /\ j \in DOMAIN held
    /\ i # j
    /\ held[i].Path = held[j].Path

\* C3: under any interleaving of the callers, two exclusive-lock requests
\* for one path (LockFile calls, OpenFile calls with exclusiveLock, or one
\* of each) are never both granted while the first lock is unexpired and not
\* unlocked.
C3_OneExclusiveHolder ==
    \A i, j \in DOMAIN held :
        HeldTogether(i, j) => ~(held[i].Type = Exclusive /\ held[j].Type = Exclusive)

\* An OpenFile with exclusiveLock is refused while another caller's granted
\* Exclusive lock on the path is held and in the table.
C3_Witness ==
    /\ ev.op = "OpenFile"
    /\ ev.error = AlreadyLocked
    /\ ev.ltype = Exclusive
    /\ \E i \in DOMAIN held :
          /\ held[i].Path = ev.path
          /\ held[i].Type = Exclusive
          /\ ev.path \in DOMAIN locks
          /\ locks[ev.path].LockID = i

\* C4: after CloseFile succeeds on a session opened with exclusiveLock whose
\* lock has not expired, the lock table has no entry for the session's path
\* (so that an Exclusive LockFile that follows at once succeeds).
C4_CloseReleasesLock ==
    (/\ ev.op = "CloseFile"
     /\ ev.success
     /\ ev.lockId # 0
     /\ ev.path \in DOMAIN ev.preLocks
     /\ ev.preLocks[ev.path].LockID = ev.lockId
     /\ ev.time < ev.preLocks[ev.path].ExpiresAt)
        => ev.path \notin DOMAIN locks

\* A LockFile call has returned from its critical section.
LockAnswered == ev.op = "LockFile" /\ ev.code = OK

\* The entry the call found for its path (when it found one).
HadEntry == ev.path \in DOMAIN ev.preLocks
Existing == ev.preLocks[ev.path]

\* The call was answered AlreadyLocked and left the table as it was.
RefusedAlreadyLocked ==
    /\ ~ev.success
    /\ ev.error = AlreadyLocked
    /\ ev.lockId = 0
    /\ locks = ev.preLocks

\* The call was granted: its entry, and no other change, is in the table,
\* with a lock id no entry had and an expiry the requested time ahead.
Granted ==
    /\ ev.success
    /\ ev.lockId # 0
    /\ \A q \in DOMAIN ev.preLocks : ev.preLocks[q].LockID # ev.lockId
    /\ DOMAIN locks = DOMAIN ev.preLocks \cup {ev.path}
    /\ \A q \in DOMAIN ev.preLocks : q # ev.path => locks[q] = ev.preLocks[q]
    /\ locks[ev.path].LockID = ev.lockId
    /\ locks[ev.path].Type = ev.ltype
    /\ locks[ev.path].ExpiresAt
          = ev.time + (IF ev.timeout = 0 THEN DefaultTimeout ELSE ev.timeout)

\* C5: after LockFile(p, Exclusive, t) is granted (its entry expires t
\* seconds after the grant), a second LockFile(p, Exclusive, t) before the
\* expiry is answered AlreadyLocked; one after the expiry, with no unlock in
\* between, is granted with a different lock id.
C5_SecondExclusive ==
    (LockAnswered /\ ev.ltype = Exclusive) =>
        /\ ev.success => Granted
        /\ (HadEntry /\ Existing.Type = Exclusive /\ ev.time < Existing.ExpiresAt)
              => RefusedAlreadyLocked
        /\ (HadEntry /\ Existing.Type = Exclusive /\ ev.time > Existing.ExpiresAt)
              => (Granted /\ ev.lockId # Existing.LockID)
        /\ ~HadEntry => Granted

\* The second Exclusive request is granted over the first one's expired
\* entry, which nobody unlocked.
C5_Witness ==
    /\ LockAnswered
    /\ ev.ltype = Exclusive
    /\ HadEntry
    /\ Existing.Type = Exclusive
    /\ ev.time > Existing.ExpiresAt
    /\ ev.success
    /\ ev.lockId # Existing.LockID

\* C6: against an unexpired lock on the path a LockFile request is answered
\* AlreadyLocked when it asks for Exclusive (whatever the existing type) or
\* the existing lock is Exclusive (whatever it asks for), and the existing
\* entry (lock id, type, expiry) stays as it was.
C6_ConflictRefused ==
    (/\ LockAnswered
     /\ HadEntry
     /\ ev.time < Existing.ExpiresAt
     /\ (ev.ltype = Exclusive \/ Existing.Type = Exclusive))
        => (RefusedAlreadyLocked /\ locks[ev.path] = Existing)

\* A Shared request is refused by an unexpired Exclusive lock.
C6_Witness ==
    /\ LockAnswered
    /\ HadEntry
    /\ ev.time < Existing.ExpiresAt
    /\ ev.ltype = Shared
    /\ Existing.Type = Exclusive
    /\ ev.error = AlreadyLocked
    /\ locks[ev.path] = Existing

\* C7: a lock its holder never unlocked stops blocking once its expiry is
\* reached: a LockFile request of either type that finds the expired entry,
\* or finds it swept, is granted.
C7_ExpiredNeverBlocks ==
    (LockAnswered /\ (HadEntry => ev.time >= Existing.ExpiresAt)) => Granted

\* A Shared request is granted over an abandoned Exclusive entry at the
\* moment of its expiry.
C7_Witness ==
    /\ LockAnswered
    /\ HadEntry
    /\ Existing.Type = Exclusive
    /\ ev.time >= Existing.ExpiresAt
    /\ ev.ltype = Shared
    /\ ev.success

\* An UnlockFile call has returned from its critical section.
UnlockAnswered == ev.op = "UnlockFile" /\ ev.code = OK

\* C8: UnlockFile(path, lockId) is answered NotFound, changing nothing, when
\* the table has no entry for the path; InvalidLock, the entry left in
\* place, when the stored lock id differs; otherwise it removes the entry of
\* that path and no other.
C8_UnlockOutcomes ==
    UnlockAnswered =>
        IF ~HadEntry
        THEN ~ev.success /\ ev.error = NotFound /\ locks = ev.preLocks
        ELSE IF Existing.LockID # ev.reqLock
        THEN ~ev.success /\ ev.error = InvalidLock /\ locks = ev.preLocks
        ELSE /\ ev.success
             /\ DOMAIN locks = DOMAIN ev.preLocks \ {ev.path}
             /\ \A q \in DOMAIN locks : locks[q] = ev.preLocks[q]

\* An entry is removed by its own lock id while the entry of another path
\* stays.
C8_Witness ==
    /\ UnlockAnswered
    /\ ev.success
    /\ HadEntry
    /\ Existing.LockID = ev.reqLock
    /\ ev.path \notin DOMAIN locks
    /\ locks # <<>>

\* C9: a Shared request on a path holding an unexpired Shared lock is
\* granted and replaces the path's single entry (new lock id, new expiry);
\* from then on UnlockFile with the first holder's lock id is answered
\* InvalidLock and leaves the entry, which only the id in the table removes.
C9_SharedReplaces ==
    /\ (/\ LockAnswered
        /\ ev.ltype = Shared
        /\ HadEntry
        /\ Existing.Type = Shared
        /\ ev.time < Existing.ExpiresAt)
          => (Granted /\ ev.lockId # Existing.LockID
              /\ DOMAIN locks = DOMAIN ev.preLocks)
    /\ (/\ UnlockAnswered
        /\ ev.reqLock \in DOMAIN held
        /\ held[ev.reqLock].Path = ev.path
        /\ HadEntry
        /\ Existing.LockID # ev.reqLock)
          => (~ev.success /\ ev.error = InvalidLock /\ locks = ev.preLocks)
    /\ (UnlockAnswered /\ ev.success) => Existing.LockID = ev.reqLock

\* The first Shared holder, its lock granted and unexpired, is answered
\* InvalidLock: the entry is the second Shared holder's.
C9_Witness ==
    /\ UnlockAnswered
    /\ ev.reqLock \in DOMAIN held
    /\ held[ev.reqLock].Path = ev.path
    /\ held[ev.reqLock].Type = Shared
    /\ HadEntry
    /\ Existing.Type = Shared
    /\ Existing.LockID # ev.reqLock
    /\ Existing.LockID \in DOMAIN held
    /\ ev.error = InvalidLock

\* C10: an Exclusive lock can be granted while an earlier holder still
\* relies on its lock on the path, and only in this way: the earlier lock is
\* a Shared one whose entry a later request replaced, and the table's entry
\* is the Exclusive lock's.
C10_OnlyDisplacedShared ==
    \A i, j \in DOMAIN held :
        (HeldTogether(i, j) /\ held[j].Type = Exclusive) =>
            /\ held[i].Type = Shared
            /\ i < j
            /\ held[j].Path \in DOMAIN locks
            /\ locks[held[j].Path].LockID = j

\* A third party's Exclusive lock is in the table while the first Shared
\* holder has neither unlocked nor reached its expiry.
C10_Witness ==
    \E i, j \in DOMAIN held :
        /\ HeldTogether(i, j)
        /\ held[i].Type = Shared
        /\ held[j].Type = Exclusive
        /\ now < held[i].ExpiresAt
        /\ locks[held[j].Path].LockID = j
        /\ ev.op = "LockFile"
        /\ ev.success
        /\ ev.lockId = j

\* ------------------------------------------------------------------------
\* Lock keys (C11)
\* ------------------------------------------------------------------------

\* Two validated paths resolve, symlinks followed, to one existing file.
SameFile(fsys, p, q) ==
    /\ EvalSymlinks(fsys, p).err = "nil"
    /\ EvalSymlinks(fsys, p) = EvalSymlinks(fsys, q)

\* C11: the lock table is keyed by the symlink-resolved path: an unexpired
\* Exclusive lock taken through one name of a file (the file, or a symlink
\* to it) makes an Exclusive LockFile through any other name of the file
\* answer AlreadyLocked.
C11_OneSlotPerFile ==
    (/\ LockAnswered
     /\ ev.ltype = Exclusive
     /\ \E q \in DOMAIN ev.preLocks :
           /\ SameFile(fs, q, ev.path)
           /\ ev.preLocks[q].Type = Exclusive
           /\ ev.time < ev.preLocks[q].ExpiresAt)
        => RefusedAlreadyLocked

\* ------------------------------------------------------------------------
\* CloseFile (C13, C14)
\* ------------------------------------------------------------------------

\* A CloseFile call has returned.
CloseAnswered == ev.op = "CloseFile" /\ ev.code = OK

\* The handle it presented was not in the session table.
UnknownHandle == ev.reqHandle \notin DOMAIN ev.preSessions

\* C13: CloseFile with a handle that is not in the session table is
\* refused as an invalid handle and leaves every session record and every
\* lock table entry as it was.
C13_UnknownHandleChangesNothing ==
    (CloseAnswered /\ UnknownHandle) =>
        /\ ~ev.success
        /\ ev.error = "Invalid file handle"
        /\ sessions = ev.preSessions
        /\ locks = ev.preLocks

\* An unknown handle was refused while the table held a session and the
\* lock table its lock.
C13_Witness ==
    /\ CloseAnswered
    /\ UnknownHandle
    /\ ~ev.success
    /\ DOMAIN ev.preSessions # {}
    /\ DOMAIN ev.preLocks # {}
    /\ sessions = ev.preSessions
    /\ locks = ev.preLocks

\* A CloseFile call that has closed the descriptor and now waits, in the
\* UnlockFile it called, for the mutex it holds itself.
CloseStuck(p) ==
    /\ call[p].top = "CloseFile"
    /\ pc[p] = "unlock_mu"
    /\ mu = p

\* C14: CloseFile called twice with one handle: the first call removes the
\* session record and succeeds, the second finds no record, is refused and
\* changes neither table; no call is left half done with the record still
\* in the table.
C14_CloseTwice ==
    /\ (CloseAnswered /\ ~UnknownHandle) =>
          (ev.success /\ ev.reqHandle \notin DOMAIN sessions)
    /\ (CloseAnswered /\ UnknownHandle) =>
          (~ev.success /\ sessions = ev.preSessions /\ locks = ev.preLocks)
    /\ \A p \in Procs : ~(CloseStuck(p) /\ call[p].handle \in DOMAIN sessions)

\* ------------------------------------------------------------------------
\* Editing through a handle (C12, C20)
\* ------------------------------------------------------------------------

\* A WriteFileContent or UpdateFileLines call has returned.
EditAnswered ==
    ev.op \in {"WriteFileContent", "UpdateFileLines"} /\ ev.code = OK

\* It was made through the handle of a session opened READ_ONLY.
ThroughReadOnly ==
    /\ ev.reqHandle \in DOMAIN ev.preSessions
    /\ ev.preSessions[ev.reqHandle].Mode = "READ_ONLY"

\* C12: a WriteFileContent or UpdateFileLines call through the handle of
\* a session opened ReadOnly is refused for the read-only mode; the files
\* and their bytes are as before (no write, no backup file) and the
\* session's HasChanges stays false.
C12_ReadOnlyRefused ==
    (EditAnswered /\ ThroughReadOnly) =>
        /\ ~ev.success
        /\ ev.error = "File opened in read-only mode"
        /\ fs = ev.preFs
        /\ data = ev.preData
        /\ ev.reqHandle \in DOMAIN sessions
        /\ ~sessions[ev.reqHandle].HasChanges

\* UpdateFileLines through a READ_ONLY handle was refused.
C12_Witness ==
    /\ EditAnswered
    /\ ThroughReadOnly
    /\ ev.op = "UpdateFileLines"
    /\ ~ev.success
    /\ data = ev.preData
    /\ ~sessions[ev.reqHandle].HasChanges

\* C20: after a successful WriteFileContent or UpdateFileLines through a
\* handle, the session's record (if the table still has it) has HasChanges
\* set and a LastAccess not earlier than the start of the call.
C20_HandleEditMarks ==
    (EditAnswered /\ ev.success /\ ev.reqHandle \in DOMAIN sessions) =>
        /\ sessions[ev.reqHandle].HasChanges
        /\ sessions[ev.reqHandle].LastAccess >= ev.start

\* An UpdateFileLines call that started after the session was opened
\* returned with the record marked at its return.
C20_Witness ==
    /\ EditAnswered
    /\ ev.success
    /\ ev.op = "UpdateFileLines"
    /\ ev.reqHandle \in DOMAIN sessions
    /\ ev.reqHandle \in DOMAIN ev.preSessions
    /\ ~ev.preSessions[ev.reqHandle].HasChanges
    /\ sessions[ev.reqHandle].HasChanges
    /\ ev.start > 0
    /\ sessions[ev.reqHandle].LastAccess > ev.preSessions[ev.reqHandle].LastAccess

\* ------------------------------------------------------------------------
\* Writes and backups (C17, C18, C19)
\* ------------------------------------------------------------------------

\* The target's bytes before and after an editing call, and whether it
\* existed.
Prior == Content(ev.preData, Comps(ev.path))
Written == Content(data, Comps(ev.path))
Existed == Stat(ev.preFs, ev.path).err = "nil"
Exists == Stat(fs, ev.path).err = "nil"

\* A WriteFileContent call by path has succeeded.
WriteDone ==
    ev.op = "WriteFileContent" /\ ev.code = OK /\ ev.success /\ ev.reqHandle = 0

\* C17: for every content, every prior state of the target and both values
\* of truncate, ReadFileContent after a successful WriteFileContent returns
\* exactly the content written.
C17_WriteThenRead ==
    WriteDone =>
        /\ ReadAnswer(fs, data, ev.path).success
        /\ ReadAnswer(fs, data, ev.path).content = ev.req.content

\* The file named path + ".backup." + <time of the call>, and whether it
\* is a copy of the target as it was.
BackupFile == ReadFile(fs, data, BackupPath(ev.path, ev.time))
BackupMade == BackupFile.err = "nil" /\ BackupFile.content = Prior

\* A backup was asked for and is due: always for UpdateFileLines, for
\* WriteFileContent when the target exists.
BackupDue ==
    /\ EditAnswered
    /\ ev.reqHandle = 0
    /\ ev.req.backup
    /\ ev.op = "WriteFileContent" => Existed

\* C18: when the backup asked for could not be made, WriteFileContent and
\* UpdateFileLines fail and the target is as it was: the write or the line
\* edits are not done.
C18_BackupFailureAborts ==
    (BackupDue /\ ~BackupMade) =>
        /\ ~ev.success
        /\ Written = Prior
        /\ Exists <=> Existed

\* The backup's name was taken by a directory: the write was refused and
\* the existing target kept its bytes.
C18_Witness ==
    /\ BackupDue
    /\ ~BackupMade
    /\ ev.op = "WriteFileContent"
    /\ Existed
    /\ ~ev.success
    /\ ev.req.content # Prior
    /\ Written = Prior

\* C19: a successful WriteFileContent with createBackup on an existing
\* target leaves the file path + ".backup." + <unix time> holding the
\* target's bytes from before the write; on a missing target no backup file
\* is made and the write is done all the same.
C19_BackupHoldsPrior ==
    (ev.op = "WriteFileContent" /\ ev.code = OK /\ ev.reqHandle = 0
        /\ ev.req.backup) =>
        IF Existed
        THEN ev.success => BackupMade
        ELSE /\ ev.success
             /\ Written = ev.req.content
             /\ DOMAIN fs = DOMAIN ev.preFs \cup {Comps(ev.path)}

\* An existing target was overwritten and its backup holds the old bytes.
C19_Witness ==
    /\ WriteDone
    /\ ev.req.backup
    /\ Existed
    /\ BackupMade
    /\ Prior # <<>>
    /\ Written # Prior
    /\ Comps(BackupPath(ev.path, ev.time)) \notin DOMAIN ev.preFs

\* ------------------------------------------------------------------------
\* Line edits (C15, C16)
\* ------------------------------------------------------------------------

\* The line numbers an update may name in a sequence of n lines.
Addressable(update, n) ==
    IF update.Operation = OpInsertBefore THEN 1..(n + 1) ELSE 1..n

\* The single-update operator, line by line: Replace overwrites line k,
\* InsertBefore / InsertAfter put the new line at k / k + 1 and move the
\* rest down, Delete removes line k; a line number that is not addressable
\* leaves the sequence as it is.
Edit(lines, update) ==
    LET k == update.LineNumber
        n == Len(lines)
        at == IF update.Operation = OpInsertAfter THEN k + 1 ELSE k
    IN  IF k \notin Addressable(update, n) THEN lines
        ELSE IF update.Operation = OpReplace
        THEN [i \in 1..n |-> IF i = k THEN update.NewContent ELSE lines[i]]
        ELSE IF update.Operation = OpDelete
        THEN [i \in 1..(n - 1) |-> IF i < k THEN lines[i] ELSE lines[i + 1]]
        ELSE [i \in 1..(n + 1) |-> IF i < at THEN lines[i]
                                   ELSE IF i = at THEN update.NewContent
                                   ELSE lines[i - 1]]

\* The fold of Edit over a batch, from the left.
RECURSIVE Fold(_, _)
Fold(lines, updates) ==
    IF updates = <<>> THEN lines
    ELSE Fold(Edit(lines, Head(updates)), Tail(updates))

\* An UpdateFileLines call by path has done its file I/O.
UpdateAnswered ==
    ev.op = "UpdateFileLines" /\ ev.code = OK /\ ev.reqHandle = 0

\* The target's bytes before and after the call.
Before == Content(ev.preData, Comps(ev.path))
After == Content(data, Comps(ev.path))

\* C15: UpdateFileLines applies the updates of a batch in the given order,
\* each against the lines the earlier ones produced: the file afterwards is
\* the fold of the single-update operator over the batch.
C15_BatchIsFold ==
    UpdateAnswered =>
        /\ ev.success
        /\ After = JoinLines(Fold(SplitLines(Before), ev.req.updates))

\* [Replace(2, X), InsertAfter(2, Y)] on the five-line file gives six
\* lines: 1, X, Y, 3, 4, 5.
C15_Witness ==
    /\ UpdateAnswered
    /\ ev.success
    /\ Before = FiveLines
    /\ ev.req.updates = <<LineUpdate(OpReplace, 2, <<chX>>),
                          LineUpdate(OpInsertAfter, 2, <<chY>>)>>
    /\ SplitLines(After) = << <<ch1>>, <<chX>>, <<chY>>, <<ch3>>, <<ch4>>, <<ch5>> >>

\* The updates of a batch that name an addressable line at their turn.
RECURSIVE InRangeOnly(_, _)
InRangeOnly(lines, updates) ==
    IF updates = <<>> THEN <<>>
    ELSE LET u == Head(updates)
             rest == InRangeOnly(Edit(lines, u), Tail(updates))
         IN  IF u.LineNumber \in Addressable(u, Len(lines)) THEN <<u>> \o rest
             ELSE rest

\* C16: an update whose line number is out of range for the current n
\* lines (outside 1..n for Replace, InsertAfter and Delete, outside 1..n+1
\* for InsertBefore, 0 and negative numbers included) changes nothing and
\* raises no error: the call succeeds and the file is what the batch
\* without these updates gives.
C16_OutOfRangeSkipped ==
    UpdateAnswered =>
        /\ ev.success
        /\ After = JoinLines(Fold(SplitLines(Before),
                                  InRangeOnly(SplitLines(Before), ev.req.updates)))
        /\ (InRangeOnly(SplitLines(Before), ev.req.updates) = <<>>)
              => After = Before

\* An out-of-range InsertBefore (line 7 of five) is skipped and the Delete
\* after it is applied.
C16_Witness ==
    /\ UpdateAnswered
    /\ ev.success
    /\ Before = FiveLines
    /\ ev.req.updates = <<LineUpdate(OpInsertBefore, 7, <<chY>>),
                          LineUpdate(OpDelete, 5, <<>>)>>
    /\ SplitLines(After) = << <<ch1>>, <<ch2>>, <<ch3>>, <<ch4>> >>

\* ------------------------------------------------------------------------
\* Dirty sessions (C21)
\* ------------------------------------------------------------------------

\* No editing call through the handle h is under way.
Settled(h) == \A p \in Procs : call[p].handle # h

\* C21: a session whose HasChanges is set has had its file changed
\* through its handle since it was opened; an edit through the handle that
\* fails leaves the flag as it was. With every successful edit changing
\* the bytes for good: once no call through the handle is under way, a
\* set flag means the file no longer holds its first bytes.
C21_DirtyMeansMutated ==
    \A h \in DOMAIN sessions :
        (Settled(h) /\ sessions[h].HasChanges) =>
            Content(data, Comps(sessions[h].Path)) # DirtyBytes

\* ------------------------------------------------------------------------
\* OpenFile (C22, C23, C24)
\* ------------------------------------------------------------------------

\* An OpenFile call with exclusiveLock was refused the lock.
OpenRefusedLock ==
    /\ ev.op = "OpenFile"
    /\ ev.code = OK
    /\ ~ev.success
    /\ ev.error = "File is already locked"

\* The descriptors the daemon should hold: one for each session and one for
\* each OpenFile call between its os.OpenFile and its return, less the one
\* a CloseFile call has closed before it removes the record.
DescriptorsDue ==
    Cardinality(DOMAIN sessions)
    + Cardinality({p \in Procs : call[p].top = "OpenFile"})
    - Cardinality({p \in Procs : CloseStuck(p)})

\* C22: an OpenFile with exclusiveLock whose lock request is refused
\* returns the failure, has closed the descriptor it opened, adds no
\* session record and leaves the lock entry that refused it as it was.
C22_LockFailureClosesFile ==
    OpenRefusedLock =>
        /\ nfds = DescriptorsDue
        /\ sessions = ev.preSessions
        /\ ev.reqHandle \notin DOMAIN sessions
        /\ ev.path \in DOMAIN locks
        /\ locks = ev.preLocks

\* The open was refused by an unexpired lock on the path and no descriptor
\* or session is left.
C22_Witness ==
    /\ OpenRefusedLock
    /\ ev.path \in DOMAIN ev.preLocks
    /\ ev.time < ev.preLocks[ev.path].ExpiresAt
    /\ locks = ev.preLocks
    /\ sessions = <<>>
    /\ nfds = 0

\* An OpenFile call with createIfNotExists has returned.
CreateAnswered == ev.op = "OpenFile" /\ ev.create

\* C23: OpenFile with createIfNotExists on a path inside the root whose
\* parent directories do not exist makes them and succeeds with a handle.
C23_CreatesMissingParents ==
    (CreateAnswered /\ ev.raw = DeepPath
        /\ IsNotExist(Stat(ev.preFs, Join(BaseDir, nN)).err)) =>
        /\ ev.code = OK
        /\ ev.success
        /\ ev.handle # 0
        /\ Stat(fs, Join(BaseDir, nN)).err = "nil"

\* C24: OpenFile with createIfNotExists on a missing file whose parent
\* directory exists succeeds in each of the modes READ_ONLY, WRITE_ONLY
\* and READ_WRITE, registers a session, and the file exists afterwards.
C24_CreateEveryMode ==
    (CreateAnswered /\ ev.raw = nX
        /\ IsNotExist(Stat(ev.preFs, Join(BaseDir, nX)).err)) =>
        /\ ev.code = OK
        /\ ev.success
        /\ ev.handle \in DOMAIN sessions
        /\ Stat(fs, Join(BaseDir, nX)).err = "nil"

\* Reads (C25, C26, C29)
ReadReturned == ev.op = "ReadFileContent" /\ ev.code = OK /\ ev.success
Newlines(content) == {i \in 1..Len(content) : content[i] = NL}

\* C26: a successful ReadFileContent returns the file's bytes and reports
\* as lineCount 0 for an empty file and the number of newline characters
\* plus one for any other, so 3 for "1\n2\n3".
C26_LineCount ==
    ReadReturned =>
        /\ ev.content = Content(ev.preData, Comps(ev.path))
        /\ ev.lineCount = IF ev.content = <<>> THEN 0
                          ELSE Cardinality(Newlines(ev.content)) + 1
        /\ (ev.content = ThreeLines => ev.lineCount = 3)
C26_Witness == ReadReturned /\ ev.content = ThreeLines /\ ev.lineCount = 3

LinesReturned == ev.op = "GetFileLines" /\ ev.code = OK /\ ev.success

\* The lines of a file: the runs of bytes that a newline ends, in order,
\* and the bytes after the last newline when there are any.
TextLines(content) ==
    LET pieces == SplitLines(content)
    IN  IF pieces[Len(pieces)] = <<>>
        THEN SubSeq(pieces, 1, Len(pieces) - 1)
        ELSE pieces

\* The lines first..last of the sequence all, each with its length and,
\* when numbered, its position; all of them from first on when last = 0.
Range(all, first, last, numbered) ==
    LET from == IF first = 0 THEN 1 ELSE first
        to == IF last = 0 \/ last > Len(all) THEN Len(all) ELSE last
    IN  [k \in 1..(to - from + 1) |->
            FileLine(all[from + k - 1], IF numbered THEN from + k - 1 ELSE 0)]

\* C25: a successful GetFileLines returns exactly the lines startLine to
\* endLine of the file, numbered from 1 in file order, a bound of 0
\* meaning none; with includeLineNumbers each line carries its position
\* in the file.
C25_LinesInRange ==
    LinesReturned =>
        ev.lines = Range(TextLines(Content(ev.preData, Comps(ev.path))),
                         ev.req.StartLine, ev.req.EndLine,
                         ev.req.IncludeLineNumbers)

\* C29: a successful GetFileLines through a handle sets the session's
\* LastAccess to the time of the call.
C29_ReadTouchesSession ==
    (LinesReturned /\ ev.reqHandle # 0 /\ ev.reqHandle \in DOMAIN sessions) =>
        sessions[ev.reqHandle].LastAccess = ev.time

\* The sweep of expired locks (C27)

\* The expiry of the entry on path q has passed.
Passed(q) == now > locks[q].ExpiresAt

\* The step in which caller p's LockFile passes validation and sweeps.
Entered(p) == pc[p] \in {"idle", "open_lock"} /\ pc'[p] = "lock_check"

\* The step in which caller p's LockFile checks and stores on its path.
Stored(p) == pc[p] = "lock_check" /\ pc'[p] # "lock_check"

\* The step is an UnlockFile that names the entry on path q and its id.
MatchingUnlock(q) ==
    /\ ev'.op = "UnlockFile"
    /\ ev'.code = OK
    /\ ev'.path = q
    /\ ev'.reqLock = locks[q].LockID

GrantStep(p) == Stored(p) /\ issued' = issued + 1

\* C28: the step that grants a LockFile request stores on its path an
\* entry that expires the requested timeoutSeconds after the time of the
\* grant, and 300 seconds after it when the request says 0; the request
\* OpenFile makes for exclusiveLock asks for 300 seconds.
C28_ExpiryFromGrant ==
    [][\A p \in Procs :
          GrantStep(p) =>
              /\ call[p].path \in DOMAIN locks'
              /\ locks'[call[p].path].LockID = issued'
              /\ IF call[p].top = "OpenFile"
                 THEN /\ call[p].timeout = 300
                      /\ locks'[call[p].path].ExpiresAt = now + 300
                 ELSE /\ ev'.op = "LockFile"
                      /\ ev'.success
                      /\ locks'[call[p].path].ExpiresAt
                            = now + (IF ev'.timeout = 0 THEN 300
                                     ELSE ev'.timeout)]_vars

\* A LockFile request for one second, granted at time 1, is stored with
\* expiry 2.
C28_Witness ==
    /\ ev.op = "LockFile"
    /\ ev.success
    /\ ev.timeout = 1
    /\ ev.time = 1
    /\ locks[ev.path].LockID = ev.lockId
    /\ locks[ev.path].ExpiresAt = 2

\* Locks and edits (C30)

\* An edit by path has returned that found, as it wrote, an Exclusive
\* lock on its path that had not expired; the caller holds no lock.
EditedUnderLock ==
    /\ ev.op \in {"WriteFileContent", "UpdateFileLines"}
    /\ ev.code = OK
    /\ ev.reqHandle = 0
    /\ ev.path \in DOMAIN ev.preLocks
    /\ ev.preLocks[ev.path].Type = Exclusive
    /\ ev.time < ev.preLocks[ev.path].ExpiresAt

\* C30: a WriteFileContent or UpdateFileLines by path on a file on which
\* another caller holds an unexpired Exclusive lock fails and leaves the
\* file's bytes as they were.
C30_LockGuardsEdits ==
    EditedUnderLock =>
        /\ ~ev.success
        /\ Content(data, Comps(ev.path)) = Content(ev.preData, Comps(ev.path))

\* CloseFile and the mutex (C32)

\* C32: every CloseFile call returns: no CloseFile call is ever left
\* waiting, in the UnlockFile it makes for a session that owns a lock, for
\* the editor's mutex that the call itself holds (a wait no step ends).
C32_CloseFileReturns ==
    \A p \in Procs :
        (call[p].top = "CloseFile" /\ mu = p) => pc[p] # "unlock_mu"

\* Exclusive sessions (C33)

\* The open sessions on path q that hold a lock id.
LockedSessions(q) ==
    {h \in DOMAIN sessions : sessions[h].Path = q /\ sessions[h].LockID # 0}

\* C33: at no time do two open sessions on one path both carry a lock id
\* from OpenFile with exclusiveLock, whether or not the earlier session's
\* 300-second lock has expired.
C33_OneExclusiveSession ==
    \A h \in DOMAIN sessions : Cardinality(LockedSessions(sessions[h].Path)) <= 1

\* Edits through a closed handle (C34)

\* Caller p is in an edit through a handle that the session table no
\* longer holds: CloseFile has removed the session since the call found it.
EditAfterClose(p) ==
    /\ pc[p] \in {"write_mark", "write_io", "update_io"}
    /\ call[p].handle # 0
    /\ call[p].handle \notin DOMAIN sessions

\* C34: once CloseFile has removed a session, no step of a
\* WriteFileContent or UpdateFileLines call made through its handle
\* changes the files or their bytes.
C34_NoEditAfterClose ==
    [][\A p \in Procs :
          (EditAfterClose(p) /\ pc'[p] # pc[p]) => (data' = data /\ fs' = fs)]_vars

\* Concurrent batches (C35)

\* Both batches of SpecRace have been applied and reported, once each.
BothReported ==
    /\ nedits = 2
    /\ \A p \in Procs : pc[p] = "idle"

\* What the file holds after batch first and then batch second, each
\* applied whole.
OneThenOther(content, first, second) ==
    JoinLines(ApplyUpdates(SplitLines(JoinLines(ApplyUpdates(SplitLines(content),
                                                             first))),
                           second))

\* C35: when two UpdateFileLines calls on one path, one batch each, have
\* both reported success, the file holds what one whole batch followed by
\* the other makes of it: it has line 1 = X and line 2 = Y, neither
\* batch lost.
C35_BatchesSerializable ==
    BothReported =>
        \E content \in RaceFiles :
            Content(data, <<nD, nA>>)
                \in {OneThenOther(content, RaceBatch(1), RaceBatch(2)),
                     OneThenOther(content, RaceBatch(2), RaceBatch(1))}

\* CloseFile and other callers' locks (C36)

\* A CloseFile call has returned success for a session that held a lock
\* id.
ClosedLockedSession == ev.op = "CloseFile" /\ ev.success /\ ev.lockId # 0

\* C36: a CloseFile that returns leaves every lock table entry whose lock
\* id is not the closing session's as it was, the entry that another
\* caller acquired on the session's path after the session's own lock
\* expired included.
C36_CloseKeepsOthersLocks ==
    ClosedLockedSession =>
        \A q \in DOMAIN ev.preLocks :
            ev.preLocks[q].LockID # ev.lockId =>
                (q \in DOMAIN locks /\ locks[q] = ev.preLocks[q])

\* The session's lock has been replaced by another caller's lock on the
\* same path, which is still there after the close.
C36_Witness ==
    /\ ClosedLockedSession
    /\ ev.path \in DOMAIN ev.preLocks
    /\ ev.preLocks[ev.path].LockID # ev.lockId
    /\ ev.path \in DOMAIN locks
    /\ locks[ev.path] = ev.preLocks[ev.path]

\* Failed opens and the lock table (C37)

\* C37: an OpenFile call that returns no handle leaves in the lock table
\* no lock that it acquired: when a step after the grant of its exclusive
\* lock fails, that lock has been released before the failure is returned.
C37_FailedOpenReleasesLock ==
    (ev.op = "OpenFile" /\ ev.handle = 0 /\ ev.reqLock # 0) =>
        \A q \in DOMAIN locks : locks[q].LockID # ev.reqLock

\* Timeouts of any sign (C38)

\* C38: whatever timeoutSeconds it asked for, a granted LockFile has
\* stored a lock that expires after the time of the grant, so that an
\* Exclusive request on the path at that same time would find it valid.
C38_GrantedLockUnexpired ==
    (ev.op = "LockFile" /\ ev.code = OK /\ ev.success) =>
        /\ ev.path \in DOMAIN locks
        /\ locks[ev.path].LockID = ev.lockId
        /\ ev.time < locks[ev.path].ExpiresAt

\* The reported number of updates (C39)

\* How many updates of the batch changed the line sequence they were
\* applied to, each applied to what the updates before it left.
RECURSIVE ChangingUpdates(_, _)
ChangingUpdates(lines, updates) ==
    IF updates = <<>> THEN 0
    ELSE LET next == ApplyUpdate(lines, Head(updates))
         IN  (IF next # lines THEN 1 ELSE 0)
             + ChangingUpdates(next, Tail(updates))

\* A successful UpdateFileLines by path has returned.
UpdateReported ==
    /\ ev.op = "UpdateFileLines"
    /\ ev.success
    /\ ev.code = OK
    /\ ev.reqHandle = 0

\* C39: the number of updates a successful UpdateFileLines reports as
\* applied is the number of updates that changed the line sequence;
\* an update skipped for its line number is not counted.
C39_ReportedCountIsApplied ==
    UpdateReported =>
        ev.applied = ChangingUpdates(SplitLines(Before), ev.req.updates)

\* The total reported by GetFileLines (C40)

\* The bytes of the file a successful GetFileLines read.
Scanned == Content(ev.preData, Comps(ev.path))

\* The file has bytes and the last of them is not a newline.
NoTrailingNewline(content) == content # <<>> /\ content[Len(content)] # NL

\* C40: the totalLines a successful GetFileLines returns is the number
\* of lines of the whole file for every requested range, a range that ends
\* before the file's last line included, and for a file without a
\* trailing newline it is the lineCount ReadFileContent reports.
C40_TotalIsWholeFile ==
    LinesReturned =>
        /\ ev.totalLines = Len(TextLines(Scanned))
        /\ NoTrailingNewline(Scanned) => ev.totalLines = LineCount(Scanned)
====
